---- MODULE Spec2Model ----
(***************************************************************************)
(* Model of the note synchronisation engine of commitpad                     *)
(* (src/src/context/NoteContext.tsx, the NoteProvider component) together    *)
(* with the remote content store it talks to (the GitHub contents API),      *)
(* the browser's connectivity flag and its clock, the effect of the Editor   *)
(* page that fetches the notes (src/src/pages/Editor.tsx) and the stored     *)
(* selection of the repository (src/src/context/RepositoryContext.tsx, the   *)
(* table 'repositories' of Supabase).                                        *)
(*                                                                           *)
(* Strings are sequences of tokens: a content is a sequence of characters,   *)
(* a file name is a sequence such as <<"note_", "1", ".md">>, a path is a    *)
(* record [dir, name] (dir = "" at the repository root).  JavaScript         *)
(* objects live in a heap, because updateNote mutates a note object in       *)
(* place and the closures of the asynchronous operations keep references     *)
(* to the arrays and objects of the render in which they were called.        *)
(*                                                                           *)
(* An asynchronous operation is one action per await: the call up to its     *)
(* first request, then one action per answer.  Spec interleaves every        *)
(* operation; SpecCreate, SpecSync, SpecEdit and SpecFolders are the         *)
(* sessions that use some of the operations only, SpecTurns the sessions     *)
(* of every operation with one call at a time, SpecReload those with page    *)
(* reloads as well, SpecSwitch those that change the repository,             *)
(* SpecTitle those that fetch one file of any short content, SpecQuiesce     *)
(* those in which the application runs by itself, under weak fairness of     *)
(* its steps, and SpecSelection those that select repositories and list      *)
(* them.  Five parts of the state are history: fetchRuns, the field          *)
(* oldFolder of a call and the field base of a note are read by the          *)
(* properties alone; deleted and the field was of a note keep the ids a      *)
(* caller may still hold.                                                    *)
(***************************************************************************)
EXTENDS Integers, Sequences, FiniteSets, TLC

\* ------------------------------------------------------------------ bounds

\* Date.now() takes the values 1..MaxClock.
MaxClock == 2
\* Public operations invoked in one behaviour.
MaxCalls == 2
\* Adverse events of the environment in one behaviour: writes and deletes by
\* other writers of the repository, requests that fail while online.
MaxExt == 1

\* Asynchronous operations in flight at the same time: those the user
\* invokes, and the two fetches that the effect of a change of repository
\* starts while calls against the repository before may still be in flight.
CallSlots == {1, 2}
EffectSlots == {3, 4}
Slots == CallSlots \cup EffectSlots

\* ----------------------------------------------------------------- strings

Undefined == "undefined"
NoRef == 0

Titles == {<<"T">>}
Bodies == {<<"x">>}
FolderNames == {"F"}
\* A name with a '/' in it, as createFolder can be given: the path of a
\* directory inside F.
NestedName == "F/G"
\* the name argument of createFolder
NewFolderNames == FolderNames \cup {NestedName}
\* name.includes('/')
HasSlash(name) == name = NestedName
\* path.split('/')[0]
TopDir(dir) == IF dir = NestedName THEN "F" ELSE dir
\* the folderName argument: not given, the root, or a folder
FolderArgs == {Undefined, ""} \cup FolderNames

IsSpace(ch) == ch \in {" ", "\t", "\n"}

\* s.split('\n')[0]
RECURSIVE FirstLine(_)
FirstLine(s) ==
    IF s = <<>> \/ Head(s) = "\n" THEN <<>> ELSE <<Head(s)>> \o FirstLine(Tail(s))

RECURSIVE DropSpaces(_)
DropSpaces(s) == IF s # <<>> /\ IsSpace(Head(s)) THEN DropSpaces(Tail(s)) ELSE s

\* line.replace(/^#\s+/, '')
StripHeading(line) ==
    IF Len(line) >= 2 /\ line[1] = "#" /\ IsSpace(line[2])
    THEN DropSpaces(Tail(line))
    ELSE line

\* name.replace(/\.md$/, '').replace('note_', '')
RECURSIVE RemoveFirst(_, _)
RemoveFirst(s, tok) ==
    IF s = <<>> THEN <<>>
    ELSE IF Head(s) = tok THEN Tail(s)
    ELSE <<Head(s)>> \o RemoveFirst(Tail(s), tok)

NameStem(name) ==
    LET noExt == IF name # <<>> /\ name[Len(name)] = ".md"
                 THEN SubSeq(name, 1, Len(name) - 1) ELSE name
    IN RemoveFirst(noExt, "note_")

\* A title taken from the first line alone, with no use of the file name.
TitleOfFirstLine(content, name) == StripHeading(FirstLine(content))

\* content.split('\n')[0].replace(/^#\s+/, '') || file.name.replace(...)
TitleOf(content, name) ==
    LET t == StripHeading(FirstLine(content))
    IN IF t # <<>> THEN t ELSE NameStem(name)

\* `# ${title}\n${content}`
FullContent(title, content) == <<"#", " ">> \o title \o <<"\n">> \o content

\* encodeBase64(str): window.btoa(str), the base64 text of the bytes of str
EncodeBase64(str) == <<"b64">> \o str

\* atob(data.content.replace(/\s/g, '')), '' when the file is empty
DecodeBase64(b64) == IF b64 = <<>> THEN <<>> ELSE Tail(b64)

\* ------------------------------------------------------------------- paths

NoteName(ts) == <<"note_", ToString(ts), ".md">>
GitkeepName == <<".gitkeep">>
ReadmeName == <<"README", ".md">>

\* folderName ? `${folderName}/note_${ts}.md` : `note_${ts}.md`
NotePath(folderName, ts) ==
    [dir |-> IF folderName \in {Undefined, ""} THEN "" ELSE folderName,
     name |-> NoteName(ts)]

NameStartsWithNote(name) == name # <<>> /\ name[1] = "note_"
NameEndsWithMd(name) == name # <<>> /\ name[Len(name)] = ".md"

\* item.name.startsWith('note_') || item.name.endsWith('.md')
IsNoteFile(name) == NameStartsWithNote(name) \/ NameEndsWithMd(name)

\* The remote listing is ordered by name: directories and files of the root
\* together ("F" < "README.md" < "note_..."), the files of a folder in the
\* place of the folder (results.flat()).
ListingOrder ==
    <<[dir |-> "F", name |-> GitkeepName]>>
    \o [i \in 1..MaxClock |-> [dir |-> "F", name |-> NoteName(i)]]
    \o <<[dir |-> "", name |-> ReadmeName]>>
    \o [i \in 1..MaxClock |-> [dir |-> "", name |-> NoteName(i)]]

AllPaths == {ListingOrder[i] : i \in 1..Len(ListingOrder)}

\* pathParts.length > 1 ? pathParts[0] : undefined
FolderOfPath(path) == IF path.dir # "" THEN path.dir ELSE Undefined

\* ------------------------------------------------------------ remote store

\* The content hash of the remote store (a git blob sha): a function of the
\* bytes of the file alone.
Hash(content) == <<"sha">> \o content

\* A file of the repository as a directory listing reports it.
Item(path, content) == [path |-> path, name |-> path.name, sha |-> Hash(content)]

RootReadme == FullContent(<<"R">>, <<>>)

\* What the repository holds when the session starts: nothing, or a README,
\* a note at the root and a folder with its marker and one note.
InitialRemotes ==
    { [p \in {} |-> <<>>],
      [p \in {[dir |-> "", name |-> ReadmeName],
              [dir |-> "", name |-> NoteName(1)],
              [dir |-> "F", name |-> GitkeepName],
              [dir |-> "F", name |-> NoteName(1)]} |->
         CASE p.name = ReadmeName -> RootReadme
           [] p.name = GitkeepName -> <<>>
           [] p.dir = "" -> FullContent(<<"T">>, <<"y">>)
           [] OTHER -> FullContent(<<"T">>, <<"w">>)] }

\* What the other repository of the user holds: one note at its root.
OtherRepository ==
    [p \in {[dir |-> "", name |-> NoteName(2)]} |-> FullContent(<<"T">>, <<"b">>)]

\* What another writer of the repository (another device, a direct edit)
\* may put into a file.
ExtContents == {FullContent(<<"T">>, <<"z">>)}

\* PUT path {content, sha?}: a create when the file does not exist and no sha
\* is given, an update when the sha given is the file's current hash; any
\* other combination is refused (409/422).
PutAccepted(store, path, sha) ==
    IF path \in DOMAIN store
    THEN sha # Undefined /\ sha = Hash(store[path])
    ELSE sha = Undefined

PutFile(store, path, content) ==
    [p \in DOMAIN store \cup {path} |-> IF p = path THEN content ELSE store[p]]

\* DELETE path {sha}: accepted when the sha is the file's current hash.
DeleteAccepted(store, path, sha) ==
    path \in DOMAIN store /\ sha = Hash(store[path])

DeleteFile(store, path) == [p \in DOMAIN store \ {path} |-> store[p]]

\* GET of a directory: the files below a directory, in listing order.
RECURSIVE ListFrom(_, _, _)
ListFrom(store, dirs, i) ==
    IF i > Len(ListingOrder) THEN <<>>
    ELSE LET p == ListingOrder[i]
         IN (IF p \in DOMAIN store /\ p.dir \in dirs
             THEN <<Item(p, store[p])>> ELSE <<>>)
            \o ListFrom(store, dirs, i + 1)

\* The directories of the root: the first segments of the paths below it.
RootDirs(store) == {TopDir(p.dir) : p \in {q \in DOMAIN store : q.dir # ""}}

\* ------------------------------------------------------------------- state

\* The repositories of the user on GitHub.
Repositories == {"A", "B"}
\* The table before the first repository is stored.
NoRows == [r \in {} |-> FALSE]
\* Calls of RepositoryProvider in flight at the same time: two of
\* selectRepository and one of fetchRepositories.
SelectCalls == {1, 2}
SyncCall == 3
RepoCalls == SelectCalls \cup {SyncCall}
IdleCall == [kind |-> "idle", pc |-> "idle", repo |-> "A", found |-> FALSE,
             existing |-> NoRows]

VARIABLES
    remote,               \* the repository: path -> content, for the files it holds
    online,               \* navigator.onLine
    now,                  \* Date.now(): the last reading of the clock
    selectedRepository,   \* useRepository().selectedRepository
    heap,                 \* the Note objects: reference -> fields
    notes,                \* useState<Note[]>: a sequence of references
    folders,              \* useState<Folder[]>
    currentNote,          \* useState<Note | null>: a reference or NoRef
    syncStatus,           \* useState<SyncStatus>
    loading,              \* useState<boolean>
    error,                \* useState<string | null>
    ops,                  \* the asynchronous calls in flight, one per slot
    calls,                \* operations invoked so far on a selected repository
    ext,                  \* events of the environment so far: writes by other
                          \* writers, requests that failed while online
    fetchRuns,            \* history: the runs of fetchNotes completed one after
                          \* the other, every request of theirs answered from the
                          \* repository as it is now, with no other step since
                          \* the first
    session,              \* sessionStorage['commitpad_current_note']: <<the Note
                          \* stored there>>, or <<>> when the item is absent
    deleted,              \* history: <<id>> when the last step was the return of
                          \* a deleteNote(id) that removed the note, else <<>>
    scheduled,            \* the effect of Editor on [selectedRepository,
                          \* fetchNotes] is due: the provider has rendered since
                          \* the effect last ran
    rows,                 \* the user's rows of the table 'repositories' of
                          \* Supabase: github_id -> selected
    repoOps               \* the calls of RepositoryProvider in flight

vars == <<remote, online, now, selectedRepository, heap, notes, folders,
          currentNote, syncStatus, loading, error, ops, calls, ext, fetchRuns,
          session, deleted, scheduled, rows, repoOps>>

\* -------------------------------------------------------------------- heap

\* A Note object.  base and was are history, not fields of the object: base is
\* the content of the file when the note was last fetched from it or written
\* to it, was holds the id the note had before its id was replaced.
NoBase == <<"absent">>
Note(id, title, content, path, folder, synced) ==
    [id |-> id, title |-> title, content |-> content, path |-> path,
     folder |-> folder, synced |-> synced, base |-> NoBase, was |-> <<>>]

\* The heap is the sequence of the live objects; a reference is an index.
HeapWith(h, o) == Append(h, o)
FreshRef(h) == Len(h) + 1

\* The objects of a sequence allocated one after the other: the new heap and
\* the sequence of their references.
AllocAll(h, objs) ==
    [heap |-> h \o objs, refs |-> [i \in 1..Len(objs) |-> Len(h) + i]]

\* The idle slot; the fields are the local variables and the closure of a call:
\* snap and cur are the `notes` and `currentNote` of the render that made the
\* function, fsnap its `folders`.  oldFolder is history: the folder the note
\* had when updateNote was called, which the call overwrites.
IdleOp ==
    [kind |-> "idle", pc |-> "idle", snap |-> <<>>, cur |-> NoRef, fsnap |-> <<>>,
     id |-> <<>>, content |-> <<>>, folderName |-> Undefined, title |-> <<>>,
     note |-> NoRef, path |-> [dir |-> "", name |-> <<>>], sha |-> Undefined,
     listing |-> <<>>, folder |-> "", clean |-> TRUE, oldFolder |-> Undefined,
     repo |-> "A"]

\* The references a state holds, in a fixed order: those of notes, currentNote,
\* then those of the calls in flight.
RECURSIVE SlotRefs(_, _)
SlotRefs(os, slots) ==
    IF slots = {} THEN <<>>
    ELSE LET s == CHOOSE x \in slots : \A y \in slots : x <= y
         IN os[s].snap \o <<os[s].cur, os[s].note>> \o SlotRefs(os, slots \ {s})

RECURSIVE Distinct(_, _)
Distinct(seq, seen) ==
    IF seq = <<>> THEN <<>>
    ELSE IF Head(seq) \in seen THEN Distinct(Tail(seq), seen)
    ELSE <<Head(seq)>> \o Distinct(Tail(seq), seen \cup {Head(seq)})

\* The effect on [currentNote]: a render with another currentNote writes its
\* JSON to the session storage, a render without one removes the item; a
\* change inside the same object writes nothing.
StoredNote(h, cur) ==
    IF cur = NoRef THEN <<>>
    ELSE IF cur # currentNote THEN <<h[cur]>>
    ELSE session

\* The state after a step: objects nothing refers to any more are dropped
\* (garbage collection) and the live ones are numbered in the order above, so
\* that a state does not depend on the addresses of its objects; the effects
\* of the render run.
Commit(h, ns, cur, os) ==
    \E hv \in {h}, nv \in {ns}, cv \in {cur}, ov \in {os} :
    \E order \in {Distinct(nv \o <<cv>> \o SlotRefs(ov, Slots), {NoRef})} :
    \E ren \in {[r \in {NoRef} \cup {order[k] : k \in 1..Len(order)} |->
                   IF r = NoRef THEN NoRef
                   ELSE CHOOSE k \in 1..Len(order) : order[k] = r]} :
       /\ heap' = [k \in 1..Len(order) |-> hv[order[k]]]
       /\ notes' = [i \in 1..Len(nv) |-> ren[nv[i]]]
       /\ currentNote' = ren[cv]
       /\ session' = StoredNote(hv, cv)
       /\ ops' = [s \in Slots |->
                    [ov[s] EXCEPT !.snap = [i \in 1..Len(ov[s].snap) |-> ren[ov[s].snap[i]]],
                                  !.cur = ren[ov[s].cur],
                                  !.note = ren[ov[s].note]]]

NoteAt(i) == heap[notes[i]]
NoteIdx == 1..Len(notes)

Free(s) == ops[s].kind = "idle"
\* A new call takes the first free slot.
FirstFree(s) == Free(s) /\ \A t \in Slots : t < s => ~Free(t)
\* The slots if the call of slot s ended with its exception passed on to the
\* caller, a rejected promise, instead of being caught.
Rethrown(s) == [ops EXCEPT ![s].pc = "rejected"]
\* The slots once the call of slot s has returned: every operation catches what
\* its requests throw, and its promise resolves.
Returned(s) == [ops EXCEPT ![s] = IdleOp]

\* The provider renders when one of its states is set to another value; an
\* array just built (newArray) is another value whatever it holds.  Every
\* render makes a new fetchNotes function and a new context value, so that
\* Editor renders and its effect on [selectedRepository, fetchNotes] is due.
Renders(newArray) ==
    scheduled' =
       /\ selectedRepository' # Undefined
       /\ \/ scheduled
          \/ newArray
          \/ selectedRepository' # selectedRepository
          \/ syncStatus' # syncStatus
          \/ loading' # loading
          \/ error' # error

\* -------------------------------------------------------------------- Init

Init ==
    /\ remote \in InitialRemotes
    /\ online \in BOOLEAN
    /\ now = 1
    /\ selectedRepository = Undefined
    /\ heap = <<>>
    /\ notes = <<>>
    /\ folders = <<>>
    /\ currentNote = NoRef
    \* useState('synced'), then the mount effect runs updateOnlineStatus()
    /\ syncStatus = IF online THEN "synced" ELSE "offline"
    /\ loading = FALSE
    /\ error = Undefined
    /\ ops = [s \in Slots |-> IdleOp]
    /\ calls = 0
    /\ ext = 0
    /\ fetchRuns = 0
    /\ session = <<>>
    /\ deleted = <<>>
    /\ scheduled = FALSE
    /\ rows = NoRows
    /\ repoOps = [c \in RepoCalls |-> IdleCall]

\* ------------------------------------------------------- remote requests

\* A request reaches the store only while the device is online, and may fail
\* even then (network error, rate limit, 5xx); such a failure is an event of
\* the environment and counts against its bound.
Outcomes == IF ~online THEN {FALSE} ELSE IF ext < MaxExt THEN {TRUE, FALSE} ELSE {TRUE}

Fault(ok) == ext' = IF online /\ ~ok THEN ext + 1 ELSE ext

\* GET of a file: the base64 text of its bytes ('' for an empty file).
GetContent(store, path) ==
    IF store[path] = <<>> THEN <<>> ELSE EncodeBase64(store[path])

\* A public operation is invoked: on a selected repository it counts against
\* the bound and takes a slot.
Invoke(s) ==
    /\ s \in CallSlots
    /\ FirstFree(s)
    /\ IF selectedRepository = Undefined
       THEN calls' = calls
       ELSE calls < MaxCalls /\ calls' = calls + 1

\* Date.now(): the last reading or a later time
ClockReadings(last) == {last, last + 1} \cap 1..MaxClock

\* ------------------------------------------------------------ fetchNotes

\* A fetchNotes that would not look whether a repository is selected.
FetchNotesUnguarded(s) ==
    /\ Invoke(s)
    /\ loading' = TRUE
    /\ error' = Undefined
    /\ Commit(heap, notes, currentNote,
              [ops EXCEPT ![s] = [IdleOp EXCEPT !.kind = "fetchNotes", !.pc = "list"]])
    /\ UNCHANGED <<remote, online, now, selectedRepository, folders, syncStatus, ext>>
    /\ fetchRuns' = fetchRuns
    /\ deleted' = <<>>
    /\ Renders(FALSE)
    /\ UNCHANGED <<rows, repoOps>>

\* fetchNotes(), up to its first await
FetchNotesCall(s) ==
    /\ Invoke(s)
    /\ IF selectedRepository = Undefined
       THEN /\ Commit(heap, <<>>, NoRef, ops)
            /\ UNCHANGED <<loading, error>>
       ELSE /\ loading' = TRUE
            /\ error' = Undefined
            /\ Commit(heap, notes, currentNote,
                      [ops EXCEPT ![s] = [IdleOp EXCEPT !.kind = "fetchNotes", !.pc = "list"]])
    /\ UNCHANGED <<remote, online, now, selectedRepository, folders, syncStatus, ext>>
    /\ fetchRuns' = IF selectedRepository = Undefined THEN 0 ELSE fetchRuns
    /\ deleted' = <<>>
    /\ Renders(FALSE)
    /\ UNCHANGED <<rows, repoOps>>

\* getAllFiles(): the note files of the root and of every directory whose
\* listing can be read (a listing that fails counts as empty).
NoteFilesOf(store, reach) ==
    IF "" \notin reach THEN <<>>
    ELSE LET all == ListFrom(store, reach, 1)
             keep(item) == IsNoteFile(item.name)
         IN SelectSeq(all, keep)

\* The repository the call of slot s talks to: the selectedRepository of the
\* render that made the call.
Store(s) == IF ops[s].repo = "B" THEN OtherRepository ELSE remote

\* The directories whose listing is answered: all of them, or the root alone,
\* or none.
FullReachOf(store) == {""} \cup RootDirs(store)
FullReach == FullReachOf(remote)
Reaches(store) ==
    IF ~online THEN {{}}
    ELSE IF ext < MaxExt THEN {FullReachOf(store), {""}, {}}
    ELSE {FullReachOf(store)}

FetchNotesList(s) ==
    /\ ops[s].kind = "fetchNotes"
    /\ ops[s].pc = "list"
    /\ \E reach \in Reaches(Store(s)) : Fault(reach = FullReachOf(Store(s))) /\
          ops' = [ops EXCEPT ![s].pc = "read",
                             ![s].listing = NoteFilesOf(Store(s), reach),
                             ![s].clean = (reach = FullReachOf(Store(s)))]
    /\ UNCHANGED <<remote, online, now, selectedRepository, heap, notes, folders,
                   currentNote, session, syncStatus, loading, error, calls>>
    /\ fetchRuns' = fetchRuns
    /\ deleted' = <<>>
    /\ Renders(FALSE)
    /\ UNCHANGED <<rows, repoOps>>

\* The reads of Promise.all that fail: none, one of them, or all of them.
ReadFailures(n) ==
    IF ~online THEN {1..n}
    ELSE IF ext < MaxExt THEN {{}} \cup {{i} : i \in 1..n} \cup {1..n}
    ELSE {{}}

\* The Note made of a listed file and of the content read for it.
FetchedNote(item, content) ==
    [Note(item.sha, TitleOf(content, item.name), content, item.path,
          FolderOfPath(item.path), TRUE) EXCEPT !.base = content]

\* notesData.filter(Boolean): the notes of the files that could be read
RECURSIVE ValidNotes(_, _, _, _)
ValidNotes(store, listing, failed, i) ==
    IF i > Len(listing) THEN <<>>
    ELSE (IF i \in failed \/ listing[i].path \notin DOMAIN store
          THEN <<>>
          ELSE <<FetchedNote(listing[i], DecodeBase64(GetContent(store, listing[i].path)))>>)
         \o ValidNotes(store, listing, failed, i + 1)

\* The run of fetchNotes in slot s had every listing answered, and what was
\* listed is what the repository holds now.
Answered(s) ==
    /\ online
    /\ ops[s].clean
    /\ ops[s].listing = NoteFilesOf(Store(s), FullReachOf(Store(s)))

\* No other run of fetchNotes is in flight.
Alone(s) == \A r \in Slots \ {s} : ops[r].kind # "fetchNotes"

\* A fetchNotes that would add what it fetched to the notes it finds.
FetchAppended(local, fetched) == local \o fetched

\* What fetchNotes sets the notes to: setNotes(validNotes)
FetchResult(local, fetched) == fetched

FetchNotesRead(s) ==
    /\ ops[s].kind = "fetchNotes"
    /\ ops[s].pc = "read"
    /\ \E failed \in ReadFailures(Len(ops[s].listing)) : Fault(failed = {}) /\
         LET got == AllocAll(heap, ValidNotes(Store(s), ops[s].listing, failed, 1))
         IN /\ Commit(got.heap, FetchResult(notes, got.refs), currentNote, Returned(s))
            /\ fetchRuns' = IF Answered(s) /\ failed = {} /\ Alone(s)
                            THEN (IF fetchRuns = 0 THEN 1 ELSE 2) ELSE 0
    /\ syncStatus' = IF online THEN "synced" ELSE "offline"
    /\ loading' = FALSE
    /\ deleted' = <<>>
    /\ UNCHANGED <<remote, online, now, selectedRepository, folders, error, calls>>
    /\ Renders(TRUE)
    /\ UNCHANGED <<rows, repoOps>>

\* ------------------------------------------------------------ createNote

\* the message createNote sets when it is called offline
CannotSyncOffline ==
    "Cannot sync note while offline. Your note will be synced when you are back online."

\* prevNotes.map(note => note.id === id ? obj : note)
ReplaceById(h, ns, id, ref) == [i \in 1..Len(ns) |-> IF h[ns[i]].id = id THEN ref ELSE ns[i]]

\* The note createNote shows at once.
TempNote(tempId, title, content, folderName, ts) ==
    Note(tempId, title, content, NotePath(folderName, ts), folderName, FALSE)

\* A createNote that would show the note only once its file is created.
WithoutTempNote(ns, ref) == ns

\* setNotes(prevNotes => [...prevNotes, tempNote])
WithTempNote(ns, ref) == Append(ns, ref)

\* createNote(title, content, folderName), up to its first await
CreateNoteCall(s, title, content, folderName) ==
    /\ Invoke(s)
    /\ IF selectedRepository = Undefined
       THEN UNCHANGED <<heap, notes, currentNote, session, syncStatus, loading, error, ops, now>>
       ELSE \E idTime \in ClockReadings(now) : \E noteTimestamp \in ClockReadings(idTime) :
            LET tempId == <<"temp-", ToString(idTime)>>
                tempNote == TempNote(tempId, title, content, folderName, noteTimestamp)
                ref == FreshRef(heap)
                h == HeapWith(heap, tempNote)
            IN /\ loading' = TRUE
               /\ IF ~online
                  THEN /\ error' = CannotSyncOffline
                       /\ syncStatus' = "offline"
                       /\ now' = noteTimestamp
                       /\ Commit(h, WithTempNote(notes, ref), ref, ops)
                  ELSE \* const timestamp = Date.now(): a second reading
                       /\ \E timestamp \in ClockReadings(noteTimestamp) :
                            /\ now' = timestamp
                            /\ Commit(h, WithTempNote(notes, ref), ref,
                                 [ops EXCEPT ![s] =
                                   [IdleOp EXCEPT !.kind = "createNote", !.pc = "put",
                                                  !.id = tempNote.id, !.title = title,
                                                  !.content = content,
                                                  !.folderName = folderName,
                                                  !.path = NotePath(folderName, timestamp)]])
                       /\ error' = Undefined
                       /\ syncStatus' = "syncing"
    /\ UNCHANGED <<remote, online, selectedRepository, folders, ext>>
    /\ fetchRuns' = 0
    /\ deleted' = <<>>
    /\ Renders(TRUE)
    /\ UNCHANGED <<rows, repoOps>>

\* A createNote that would keep the temporary id once the file is created.
FinalNoteOfTempId(op, sha) ==
    [Note(op.id, op.title, op.content, op.path, op.folderName, TRUE)
       EXCEPT !.base = FullContent(op.title, op.content)]

\* The note that replaces the temporary one once the file is created.
FinalNote(op, sha) ==
    [Note(sha, op.title, op.content, op.path, op.folderName, TRUE)
       EXCEPT !.base = FullContent(op.title, op.content), !.was = <<op.id>>]

\* the answer to createOrUpdateFileContents({path: filename, content}) and the
\* rest of createNote
CreateNotePut(s) ==
    /\ ops[s].kind = "createNote"
    /\ ops[s].pc = "put"
    /\ \E ok \in Outcomes : Fault(ok) /\
         IF ok /\ PutAccepted(remote, ops[s].path, Undefined)
         THEN LET op == ops[s]
                  stored == DecodeBase64(EncodeBase64(FullContent(op.title, op.content)))
                  ref == FreshRef(heap)
                  h == HeapWith(heap, FinalNote(op, Hash(stored)))
              IN /\ remote' = PutFile(remote, op.path, stored)
                 /\ Commit(h, ReplaceById(h, notes, op.id, ref), ref, Returned(s))
                 /\ syncStatus' = "synced"
                 /\ error' = error
         ELSE /\ error' = "Failed to create note"
              /\ syncStatus' = "offline"
              /\ Commit(heap, notes, currentNote, Returned(s))
              /\ remote' = remote
    /\ loading' = FALSE
    /\ UNCHANGED <<online, now, selectedRepository, folders, calls>>
    /\ fetchRuns' = 0
    /\ deleted' = <<>>
    /\ Renders(remote' # remote)
    /\ UNCHANGED <<rows, repoOps>>

\* ------------------------------------------------------------ updateNote

\* notes.find(n => n.id === id): the first note with that id, or NoRef
FindById(h, ns, id) ==
    IF \E i \in 1..Len(ns) : h[ns[i]].id = id
    THEN ns[CHOOSE i \in 1..Len(ns) :
                /\ h[ns[i]].id = id
                /\ \A j \in 1..(i - 1) : h[ns[j]].id # id]
    ELSE NoRef

\* The ids a caller can pass: those of the notes it sees, the one a note it
\* sees had when the caller read it, the one of the note it has just deleted,
\* or one of a note that is gone.
CallerIds ==
    {NoteAt(i).id : i \in NoteIdx}
    \cup UNION {{NoteAt(i).was[k] : k \in 1..Len(NoteAt(i).was)} : i \in NoteIdx}
    \cup {deleted[i] : i \in 1..Len(deleted)}
    \cup {<<"gone">>}

\* note.content = content; if (folderName !== undefined) note.folder = folderName
Edited(obj, content, folderName) ==
    [obj EXCEPT !.content = content,
                !.folder = IF folderName # Undefined THEN folderName ELSE @]

\* the catch block of createNote, updateNote and deleteNote:
\* setError(msg); setSyncStatus('offline'), and the finally: setLoading(false)
Caught(msg) ==
    /\ error' = msg
    /\ syncStatus' = "offline"
    /\ loading' = FALSE

\* updateNote(id, content, folderName), up to its first await
UpdateNoteCall(s, id, content, folderName) ==
    /\ Invoke(s)
    /\ IF selectedRepository = Undefined
       THEN UNCHANGED <<heap, notes, currentNote, session, ops, syncStatus, loading, error>>
       ELSE LET note == FindById(heap, notes, id)
            IN IF note = NoRef
               THEN /\ Caught("Failed to update note")
                    /\ UNCHANGED <<heap, notes, currentNote, session, ops>>
               ELSE LET edited == [heap EXCEPT ![note] = Edited(@, content, folderName)]
                    IN IF ~online
                       THEN /\ error' = "Cannot update note while offline"
                            /\ syncStatus' = "offline"
                            /\ loading' = FALSE
                            /\ Commit(edited, notes, currentNote, ops)
                       ELSE /\ error' = Undefined
                            /\ syncStatus' = "syncing"
                            /\ loading' = TRUE
                            /\ Commit(edited, notes, currentNote,
                                 [ops EXCEPT ![s] =
                                   [IdleOp EXCEPT !.kind = "updateNote", !.pc = "get",
                                                  !.id = id, !.content = content,
                                                  !.folderName = folderName,
                                                  !.note = note, !.cur = currentNote,
                                                  !.oldFolder = heap[note].folder]])
    /\ UNCHANGED <<remote, online, now, selectedRepository, folders, ext>>
    /\ fetchRuns' = 0
    /\ deleted' = <<>>
    /\ Renders(FALSE)
    /\ UNCHANGED <<rows, repoOps>>

\* if (folderName !== undefined && note.folder !== folderName): the file is
\* moved, not updated
IsMove(folderName, note) == folderName # Undefined /\ note.folder # folderName

\* the answer to getContent({path: note.path}): the sha of the file, and the
\* choice between moving the file and updating it
UpdateNoteGet(s) ==
    /\ ops[s].kind = "updateNote"
    /\ ops[s].pc = "get"
    /\ \E ok \in Outcomes : Fault(ok) /\
         LET op == ops[s]
             note == heap[op.note]
         IN IF ok /\ note.path \in DOMAIN remote
            THEN /\ ops' = [ops EXCEPT
                     ![s].sha = Hash(remote[note.path]),
                     ![s].title = note.title,
                     ![s].pc = IF IsMove(op.folderName, note) THEN "moveDelete" ELSE "put"]
                 /\ UNCHANGED <<error, syncStatus, loading, heap, notes, currentNote, session>>
            ELSE /\ Caught("Failed to update note")
                 /\ Commit(heap, notes, currentNote, Returned(s))
    /\ UNCHANGED <<remote, online, now, selectedRepository, folders, calls>>
    /\ fetchRuns' = 0
    /\ deleted' = <<>>
    /\ Renders(FALSE)
    /\ UNCHANGED <<rows, repoOps>>

\* the local state update that ends updateNote:
\* setNotes(prev => prev.map(n => n.id === id ? note : n));
\* if (currentNote?.id === id) setCurrentNote(note); setSyncStatus('synced')
UpdateNoteDone(s, h) ==
    LET op == ops[s]
    IN /\ Commit(h, ReplaceById(h, notes, op.id, op.note),
                 IF op.cur # NoRef /\ h[op.cur].id = op.id THEN op.note ELSE currentNote,
                 Returned(s))
       /\ syncStatus' = "synced"
       /\ loading' = FALSE
       /\ error' = error

\* The sha updateNote passes with its write: the one getContent just returned.
WriteSha(op, note) == op.sha

\* the answer to createOrUpdateFileContents({path: note.path, content, sha})
UpdateNotePut(s) ==
    /\ ops[s].kind = "updateNote"
    /\ ops[s].pc = "put"
    /\ \E ok \in Outcomes : Fault(ok) /\
         LET op == ops[s]
             path == heap[op.note].path
             stored == DecodeBase64(EncodeBase64(FullContent(op.title, op.content)))
         IN IF ok /\ PutAccepted(remote, path, WriteSha(op, heap[op.note]))
            THEN /\ remote' = PutFile(remote, path, stored)
                 /\ UpdateNoteDone(s, [heap EXCEPT ![op.note].base = stored])
            ELSE /\ Caught("Failed to update note")
                 /\ Commit(heap, notes, currentNote, Returned(s))
                 /\ remote' = remote
    /\ UNCHANGED <<online, now, selectedRepository, folders, calls>>
    /\ fetchRuns' = 0
    /\ deleted' = <<>>
    /\ Renders(syncStatus' = "synced")
    /\ UNCHANGED <<rows, repoOps>>

\* the answer to deleteFile({path: note.path, sha}) of a move, and the choice
\* of the new path
UpdateNoteMoveDelete(s) ==
    /\ ops[s].kind = "updateNote"
    /\ ops[s].pc = "moveDelete"
    /\ \E ok \in Outcomes : Fault(ok) /\
         LET op == ops[s]
             path == heap[op.note].path
         IN IF ok /\ DeleteAccepted(remote, path, op.sha)
            THEN /\ remote' = DeleteFile(remote, path)
                 /\ \E timestamp \in ClockReadings(now) :
                      /\ now' = timestamp
                      /\ ops' = [ops EXCEPT ![s].pc = "moveCreate",
                                            ![s].path = NotePath(op.folderName, timestamp)]
                 /\ UNCHANGED <<error, syncStatus, loading, heap, notes, currentNote, session>>
            ELSE /\ Caught("Failed to update note")
                 /\ Commit(heap, notes, currentNote, Returned(s))
                 /\ UNCHANGED <<remote, now>>
    /\ UNCHANGED <<online, selectedRepository, folders, calls>>
    /\ fetchRuns' = 0
    /\ deleted' = <<>>
    /\ Renders(FALSE)
    /\ UNCHANGED <<rows, repoOps>>

\* the answer to createOrUpdateFileContents({path: newPath, content}) of a move
UpdateNoteMoveCreate(s) ==
    /\ ops[s].kind = "updateNote"
    /\ ops[s].pc = "moveCreate"
    /\ \E ok \in Outcomes : Fault(ok) /\
         LET op == ops[s]
             stored == DecodeBase64(EncodeBase64(FullContent(op.title, op.content)))
         IN IF ok /\ PutAccepted(remote, op.path, Undefined)
            THEN /\ remote' = PutFile(remote, op.path, stored)
                 /\ UpdateNoteDone(s, [heap EXCEPT ![op.note].path = op.path,
                                                   ![op.note].id = Hash(stored),
                                                   ![op.note].base = stored,
                                                   ![op.note].was = <<heap[op.note].id>>])
            ELSE /\ Caught("Failed to update note")
                 /\ Commit(heap, notes, currentNote, Returned(s))
                 /\ remote' = remote
    /\ UNCHANGED <<online, now, selectedRepository, folders, calls>>
    /\ fetchRuns' = 0
    /\ deleted' = <<>>
    /\ Renders(syncStatus' = "synced")
    /\ UNCHANGED <<rows, repoOps>>

\* ------------------------------------------------------------ deleteNote

\* deleteNote(id), up to its first await
DeleteNoteCall(s, id) ==
    /\ Invoke(s)
    /\ IF selectedRepository = Undefined
       THEN UNCHANGED <<syncStatus, loading, error, heap, notes, currentNote, session, ops>>
       ELSE LET note == FindById(heap, notes, id)
            IN IF note = NoRef
               THEN /\ Caught("Failed to delete note")
                    /\ UNCHANGED <<heap, notes, currentNote, session, ops>>
               ELSE IF ~online
               THEN /\ error' = "Cannot delete note while offline"
                    /\ syncStatus' = "offline"
                    /\ loading' = FALSE
                    /\ UNCHANGED <<heap, notes, currentNote, session, ops>>
               ELSE /\ error' = Undefined
                    /\ syncStatus' = "syncing"
                    /\ loading' = TRUE
                    /\ Commit(heap, notes, currentNote,
                         [ops EXCEPT ![s] =
                           [IdleOp EXCEPT !.kind = "deleteNote", !.pc = "get",
                                          !.id = id, !.note = note, !.cur = currentNote]])
    /\ UNCHANGED <<remote, online, now, selectedRepository, folders, ext>>
    /\ fetchRuns' = 0
    /\ deleted' = <<>>
    /\ Renders(FALSE)
    /\ UNCHANGED <<rows, repoOps>>

\* the answer to getContent({path: note.path})
DeleteNoteGet(s) ==
    /\ ops[s].kind = "deleteNote"
    /\ ops[s].pc = "get"
    /\ \E ok \in Outcomes : Fault(ok) /\
         LET path == heap[ops[s].note].path
         IN IF ok /\ path \in DOMAIN remote
            THEN /\ ops' = [ops EXCEPT ![s].sha = Hash(remote[path]), ![s].pc = "delete"]
                 /\ UNCHANGED <<error, syncStatus, loading, heap, notes, currentNote, session>>
            ELSE /\ Caught("Failed to delete note")
                 /\ Commit(heap, notes, currentNote, Returned(s))
    /\ UNCHANGED <<remote, online, now, selectedRepository, folders, calls>>
    /\ fetchRuns' = 0
    /\ deleted' = <<>>
    /\ Renders(FALSE)
    /\ UNCHANGED <<rows, repoOps>>

\* prev.filter(n => n.id !== id)
WithoutId(h, ns, id) == LET keep(r) == h[r].id # id IN SelectSeq(ns, keep)

\* the answer to deleteFile({path: note.path, sha}) and the rest of deleteNote
DeleteNoteDelete(s) ==
    /\ ops[s].kind = "deleteNote"
    /\ ops[s].pc = "delete"
    /\ \E ok \in Outcomes : Fault(ok) /\
         LET op == ops[s]
             path == heap[op.note].path
         IN IF ok /\ DeleteAccepted(remote, path, op.sha)
            THEN /\ remote' = DeleteFile(remote, path)
                 /\ Commit(heap, WithoutId(heap, notes, op.id),
                           IF op.cur # NoRef /\ heap[op.cur].id = op.id
                           THEN NoRef ELSE currentNote,
                           Returned(s))
                 /\ syncStatus' = "synced"
                 /\ loading' = FALSE
                 /\ error' = error
            ELSE /\ Caught("Failed to delete note")
                 /\ Commit(heap, notes, currentNote, Returned(s))
                 /\ remote' = remote
    /\ UNCHANGED <<online, now, selectedRepository, folders, calls>>
    /\ fetchRuns' = 0
    /\ deleted' = IF syncStatus' = "synced" THEN <<ops[s].id>> ELSE <<>>
    /\ Renders(syncStatus' = "synced")
    /\ UNCHANGED <<rows, repoOps>>

\* ------------------------------------------------------------- syncNotes

\* syncNotes(), up to its first await
SyncNotesCall(s) ==
    /\ Invoke(s)
    /\ IF selectedRepository = Undefined
       THEN UNCHANGED <<loading, error, heap, notes, currentNote, session, ops>>
       ELSE /\ loading' = TRUE
            /\ error' = Undefined
            /\ Commit(heap, notes, currentNote,
                 [ops EXCEPT ![s] =
                   [IdleOp EXCEPT !.kind = "syncNotes", !.pc = "list", !.snap = notes]])
    /\ UNCHANGED <<remote, online, now, selectedRepository, folders, syncStatus, ext>>
    /\ fetchRuns' = 0
    /\ deleted' = <<>>
    /\ Renders(FALSE)
    /\ UNCHANGED <<rows, repoOps>>

\* the answer to getContent({path: ''}): the note files of the root
SyncNotesList(s) ==
    /\ ops[s].kind = "syncNotes"
    /\ ops[s].pc = "list"
    /\ \E ok \in Outcomes : Fault(ok) /\
         IF ok
         THEN /\ ops' = [ops EXCEPT ![s].pc = "read",
                                    ![s].listing = NoteFilesOf(remote, {""})]
              /\ UNCHANGED <<error, loading, heap, notes, currentNote, session>>
         ELSE \* catch: setError('Failed to sync notes'); finally: setLoading(false)
              /\ error' = "Failed to sync notes"
              /\ loading' = FALSE
              /\ Commit(heap, notes, currentNote, Returned(s))
    /\ UNCHANGED <<remote, online, now, selectedRepository, folders, syncStatus,
                   calls>>
    /\ fetchRuns' = 0
    /\ deleted' = <<>>
    /\ Renders(FALSE)
    /\ UNCHANGED <<rows, repoOps>>

\* The Note syncNotes makes of a listed file: it has no folder.
SyncedNote(item, content) ==
    [Note(item.sha, TitleOf(content, item.name), content, item.path, Undefined, TRUE)
       EXCEPT !.base = content]

RECURSIVE SyncFetched(_, _, _, _)
SyncFetched(store, listing, failed, i) ==
    IF i > Len(listing) THEN <<>>
    ELSE (IF i \in failed \/ listing[i].path \notin DOMAIN store
          THEN <<>>
          ELSE <<SyncedNote(listing[i], DecodeBase64(GetContent(store, listing[i].path)))>>)
         \o SyncFetched(store, listing, failed, i + 1)

\* mergedNotes.findIndex(n => n.path === path), 0 when there is none
IndexOfPath(h, ns, path) ==
    IF \E i \in 1..Len(ns) : h[ns[i]].path = path
    THEN CHOOSE i \in 1..Len(ns) :
            /\ h[ns[i]].path = path
            /\ \A j \in 1..(i - 1) : h[ns[j]].path # path
    ELSE 0

\* One turn of fetchedNotes.forEach(...): a local note that is not synced is
\* kept; one that is synced is replaced by the fetched note of its path; a
\* fetched note with no local note is added.
MergeOne(h, merged, f) ==
    LET idx == IndexOfPath(h, merged, h[f].path)
    IN IF idx = 0 THEN Append(merged, f)
       ELSE IF ~h[merged[idx]].synced THEN merged
       ELSE [merged EXCEPT ![idx] = f]

RECURSIVE MergeNotes(_, _, _)
MergeNotes(h, merged, fetched) ==
    IF fetched = <<>> THEN merged
    ELSE MergeNotes(h, MergeOne(h, merged, Head(fetched)), Tail(fetched))

\* setSyncStatus('conflicted') is called during the merge
RECURSIVE MergeConflict(_, _, _)
MergeConflict(h, merged, fetched) ==
    IF fetched = <<>> THEN FALSE
    ELSE LET f == Head(fetched)
             idx == IndexOfPath(h, merged, h[f].path)
         IN \/ (idx # 0 /\ ~h[merged[idx]].synced /\ h[merged[idx]].content # h[f].content)
            \/ MergeConflict(h, MergeOne(h, merged, f), Tail(fetched))

\* The status syncNotes leaves: setSyncStatus(navigator.onLine ? 'synced' :
\* 'offline') is its last call and overrides the 'conflicted' of the merge.
SyncFinalStatus(conflict) == IF online THEN "synced" ELSE "offline"

\* the answers to the reads of the files, the merge and the rest of syncNotes
SyncNotesRead(s) ==
    /\ ops[s].kind = "syncNotes"
    /\ ops[s].pc = "read"
    /\ \E failed \in ReadFailures(Len(ops[s].listing)) : Fault(failed = {}) /\
         LET got == AllocAll(heap, SyncFetched(remote, ops[s].listing, failed, 1))
         IN /\ Commit(got.heap, MergeNotes(got.heap, ops[s].snap, got.refs),
                      currentNote, Returned(s))
            /\ syncStatus' = SyncFinalStatus(MergeConflict(got.heap, ops[s].snap, got.refs))
    /\ loading' = FALSE
    /\ UNCHANGED <<remote, online, now, selectedRepository, folders, error, calls>>
    /\ fetchRuns' = 0
    /\ deleted' = <<>>
    /\ Renders(TRUE)
    /\ UNCHANGED <<rows, repoOps>>

\* --------------------------------------------------------------- folders

\* The sha of a directory (a git tree): a function of its entries.
TreeSha(store, d) ==
    [tree |-> d,
     entries |-> {Item(p, store[p]) : p \in {q \in DOMAIN store : TopDir(q.dir) = d}}]

Folder(id, name, path) == [id |-> id, name |-> name, path |-> path]

\* folderDirs.map(dir => ({id: dir.sha, name: dir.name, path: dir.path}))
RECURSIVE FolderObjects(_, _)
FolderObjects(store, dirs) ==
    IF dirs = {} THEN <<>>
    ELSE LET d == CHOOSE x \in dirs : TRUE
         IN <<Folder(TreeSha(store, d), d, d)>> \o FolderObjects(store, dirs \ {d})

\* A fetchFolders that would add what it fetched to the folders it finds.
FoldersAppended(old, fetched) == old \o fetched

\* What fetchFolders sets the folders to: setFolders(folderObjects)
FoldersResult(old, fetched) == fetched

\* the answer to getContent({path: ''}) of fetchFolders, and what follows it
\* in the caller (createFolder and deleteFolder: finally setLoading(false))
FoldersAnswer(s) ==
    /\ ops[s].pc = "folders"
    /\ \E ok \in Outcomes : Fault(ok) /\
         IF ok
         THEN /\ folders' = FoldersResult(folders, FolderObjects(Store(s), RootDirs(Store(s))))
              /\ error' = error
         ELSE /\ folders' = <<>>
              /\ error' = "Failed to fetch folders from GitHub"
    /\ loading' = FALSE
    /\ Commit(heap, notes, currentNote, Returned(s))
    /\ UNCHANGED <<remote, online, now, selectedRepository, syncStatus, calls>>
    /\ fetchRuns' = 0
    /\ deleted' = <<>>
    /\ Renders(TRUE)
    /\ UNCHANGED <<rows, repoOps>>

\* createFolder(name), up to its first await
CreateFolderCall(s, name) ==
    /\ Invoke(s)
    /\ IF selectedRepository = Undefined
       THEN UNCHANGED <<loading, error, ops>>
       ELSE /\ loading' = TRUE
            /\ error' = Undefined
            /\ ops' = [ops EXCEPT ![s] =
                 [IdleOp EXCEPT !.kind = "createFolder", !.pc = "put",
                                !.folder = name, !.fsnap = folders,
                                !.path = [dir |-> name, name |-> GitkeepName]]]
    /\ UNCHANGED <<remote, online, now, selectedRepository, heap, notes, folders,
                   currentNote, session, syncStatus, ext>>
    /\ fetchRuns' = 0
    /\ deleted' = <<>>
    /\ Renders(FALSE)
    /\ UNCHANGED <<rows, repoOps>>

\* the answer to createOrUpdateFileContents({path: `${name}/.gitkeep`}), then
\* the call of fetchFolders() up to its await
CreateFolderPut(s) ==
    /\ ops[s].kind = "createFolder"
    /\ ops[s].pc = "put"
    /\ \E ok \in Outcomes : Fault(ok) /\
         IF ok /\ PutAccepted(remote, ops[s].path, Undefined)
         THEN /\ remote' = PutFile(remote, ops[s].path, DecodeBase64(EncodeBase64(<<>>)))
              /\ loading' = TRUE
              /\ error' = Undefined
              /\ ops' = [ops EXCEPT ![s].pc = "folders"]
              /\ UNCHANGED <<heap, notes, currentNote, session>>
         ELSE /\ error' = "Failed to create folder in GitHub"
              /\ loading' = FALSE
              /\ Commit(heap, notes, currentNote, Returned(s))
              /\ remote' = remote
    /\ UNCHANGED <<online, now, selectedRepository, folders, syncStatus, calls>>
    /\ fetchRuns' = 0
    /\ deleted' = <<>>
    /\ Renders(FALSE)
    /\ UNCHANGED <<rows, repoOps>>

\* folders.find(f => f.id === id)
FindFolder(fs, id) ==
    fs[CHOOSE i \in 1..Len(fs) : fs[i].id = id /\ \A j \in 1..(i - 1) : fs[j].id # id]

\* The ids a caller can pass: those of the folders it sees, or one of a
\* folder that is gone.
FolderIds == {folders[i].id : i \in 1..Len(folders)} \cup {TreeSha(remote, "gone")}

\* deleteFolder(id), up to its first await
DeleteFolderCall(s, id) ==
    /\ Invoke(s)
    /\ IF selectedRepository = Undefined
       THEN UNCHANGED <<loading, error, ops>>
       ELSE IF \A i \in 1..Len(folders) : folders[i].id # id
       THEN \* throw new Error('Folder not found')
            /\ error' = "Failed to delete folder in GitHub"
            /\ loading' = FALSE
            /\ ops' = ops
       ELSE /\ loading' = TRUE
            /\ error' = Undefined
            /\ ops' = [ops EXCEPT ![s] =
                 [IdleOp EXCEPT !.kind = "deleteFolder", !.pc = "list",
                                !.folder = FindFolder(folders, id).name,
                                !.path = [dir |-> FindFolder(folders, id).path,
                                          name |-> <<>>]]]
    /\ UNCHANGED <<remote, online, now, selectedRepository, heap, notes, folders,
                   currentNote, session, syncStatus, ext>>
    /\ fetchRuns' = 0
    /\ deleted' = <<>>
    /\ Renders(FALSE)
    /\ UNCHANGED <<rows, repoOps>>

\* the catch block of deleteFolder and its finally
DeleteFolderCaught(s) ==
    /\ error' = "Failed to delete folder in GitHub"
    /\ loading' = FALSE
    /\ Commit(heap, notes, currentNote, Returned(s))

\* the answer to getContent({path: folder.path}): the files of the folder
DeleteFolderList(s) ==
    /\ ops[s].kind = "deleteFolder"
    /\ ops[s].pc = "list"
    /\ \E ok \in Outcomes : Fault(ok) /\
         LET files == ListFrom(remote, {ops[s].path.dir}, 1)
         IN IF ok /\ files # <<>>
            THEN /\ ops' = [ops EXCEPT ![s].pc = "files", ![s].listing = files]
                 /\ UNCHANGED <<error, loading, heap, notes, currentNote, session>>
            ELSE IF ok /\ ops[s].path.dir \in RootDirs(remote)
            THEN \* nothing but directories in it: the loop deletes no file
                 /\ ops' = [ops EXCEPT ![s].pc = "folders"]
                 /\ loading' = TRUE
                 /\ error' = Undefined
                 /\ UNCHANGED <<heap, notes, currentNote, session>>
            ELSE DeleteFolderCaught(s)
    /\ UNCHANGED <<remote, online, now, selectedRepository, folders, syncStatus,
                   calls>>
    /\ fetchRuns' = 0
    /\ deleted' = <<>>
    /\ Renders(FALSE)
    /\ UNCHANGED <<rows, repoOps>>

\* one turn of the loop over the files: getContent of the file, deleteFile with
\* the sha it returned; after the last file, the call of fetchFolders() up to
\* its await
DeleteFolderFile(s) ==
    /\ ops[s].kind = "deleteFolder"
    /\ ops[s].pc = "files"
    /\ \E ok \in Outcomes : Fault(ok) /\
         LET path == Head(ops[s].listing).path
         IN IF ok /\ path \in DOMAIN remote
            THEN /\ remote' = DeleteFile(remote, path)
                 /\ IF Len(ops[s].listing) = 1
                    THEN /\ loading' = TRUE
                         /\ error' = Undefined
                         /\ ops' = [ops EXCEPT ![s].pc = "folders", ![s].listing = <<>>]
                    ELSE /\ ops' = [ops EXCEPT ![s].listing = Tail(@)]
                         /\ UNCHANGED <<error, loading>>
                 /\ UNCHANGED <<heap, notes, currentNote, session>>
            ELSE /\ DeleteFolderCaught(s)
                 /\ remote' = remote
    /\ UNCHANGED <<online, now, selectedRepository, folders, syncStatus, calls>>
    /\ fetchRuns' = 0
    /\ deleted' = <<>>
    /\ Renders(FALSE)
    /\ UNCHANGED <<rows, repoOps>>

\* ----------------------------------------------------------- environment

\* selectRepository(repo) of RepositoryProvider after
\* setSelectedRepository(repo), up to its first await: the request that
\* clears the flag 'selected' of every row of the user is sent.
SelectRepositoryCall(repo) ==
    /\ \E c \in SelectCalls :
          /\ repoOps[c].kind = "idle"
          /\ \A d \in SelectCalls : d < c => repoOps[d].kind # "idle"
          /\ repoOps' = [repoOps EXCEPT ![c] =
                           [IdleCall EXCEPT !.kind = "select", !.pc = "clear",
                                            !.repo = repo]]
    /\ rows' = rows

\* The user selects the repository with selectRepository(repo); the effect on
\* [isAuthenticated, selectedRepository] clears the local state and calls
\* fetchNotes() and fetchFolders().
SelectRepository ==
    /\ selectedRepository = Undefined
    /\ \A s \in Slots : Free(s)
    /\ selectedRepository' = "A"
    /\ folders' = <<>>
    /\ loading' = TRUE
    /\ error' = Undefined
    /\ Commit(heap, <<>>, NoRef,
         [s \in Slots |->
            IF s = 1 THEN [IdleOp EXCEPT !.kind = "fetchNotes", !.pc = "list"]
            ELSE IF s = 2 THEN [IdleOp EXCEPT !.kind = "fetchFolders", !.pc = "folders"]
            ELSE ops[s]])
    /\ UNCHANGED <<remote, online, now, syncStatus, calls, ext>>
    /\ fetchRuns' = 0
    /\ deleted' = <<>>
    /\ Renders(TRUE)
    /\ SelectRepositoryCall("A")

\* The user selects the other repository: the effect on [isAuthenticated,
\* selectedRepository] runs again, clears the local state and calls
\* fetchNotes() and fetchFolders() for it; the calls in flight go on with the
\* repository of their render.  It is the last thing the user does in a
\* behaviour.
ChangeRepository ==
    /\ selectedRepository = "A"
    /\ \A s \in EffectSlots : Free(s)
    /\ selectedRepository' = "B"
    /\ folders' = <<>>
    /\ loading' = TRUE
    /\ error' = Undefined
    /\ Commit(heap, <<>>, NoRef,
         [s \in Slots |->
            IF s = 3 THEN [IdleOp EXCEPT !.kind = "fetchNotes", !.pc = "list", !.repo = "B"]
            ELSE IF s = 4
            THEN [IdleOp EXCEPT !.kind = "fetchFolders", !.pc = "folders", !.repo = "B"]
            ELSE ops[s]])
    /\ calls' = MaxCalls
    /\ UNCHANGED <<remote, online, now, syncStatus, ext>>
    /\ fetchRuns' = 0
    /\ deleted' = <<>>
    /\ Renders(TRUE)
    /\ SelectRepositoryCall("B")

\* The effect of Editor runs: if (selectedRepository) fetchNotes().  The call
\* runs up to its first await, in a render of its own when setLoading(true)
\* or setError(null) changes a state.
EditorEffect(s) ==
    /\ scheduled
    /\ selectedRepository # Undefined
    /\ s \in EffectSlots
    /\ Free(s)
    /\ \A t \in EffectSlots : t < s => ~Free(t)
    /\ loading' = TRUE
    /\ error' = Undefined
    /\ Commit(heap, notes, currentNote,
              [ops EXCEPT ![s] = [IdleOp EXCEPT !.kind = "fetchNotes", !.pc = "list",
                                                !.repo = selectedRepository]])
    /\ UNCHANGED <<remote, online, now, selectedRepository, folders, syncStatus,
                   calls, ext>>
    /\ fetchRuns' = fetchRuns
    /\ deleted' = <<>>
    /\ scheduled' = (loading' # loading \/ error' # error)
    /\ UNCHANGED <<rows, repoOps>>

\* A step of RepositoryProvider that leaves the state of NoteProvider alone;
\* NoteProvider reads the context of RepositoryProvider, so it renders again
\* when a state of RepositoryProvider is set.
RepositoryStep(rendered) ==
    /\ UNCHANGED <<remote, online, now, selectedRepository, heap, notes, folders,
                   currentNote, session, syncStatus, loading, error, ops, calls,
                   ext>>
    /\ fetchRuns' = 0
    /\ deleted' = <<>>
    /\ Renders(rendered)

\* selectRepository: update({selected: false}).eq('user_id', ...) is answered;
\* the row of the repository is looked up next.
SelectRepositoryClear(c) ==
    /\ repoOps[c].kind = "select"
    /\ repoOps[c].pc = "clear"
    /\ rows' = [r \in DOMAIN rows |-> FALSE]
    /\ repoOps' = [repoOps EXCEPT ![c].pc = "find"]
    /\ RepositoryStep(FALSE)

\* selectRepository: select('id').eq('github_id', repo.id).single() is
\* answered, with an error when the user has no row of the repository.
SelectRepositoryFind(c) ==
    /\ repoOps[c].kind = "select"
    /\ repoOps[c].pc = "find"
    /\ rows' = rows
    /\ repoOps' = [repoOps EXCEPT ![c].pc = "mark",
                                  ![c].found = (repoOps[c].repo \in DOMAIN rows)]
    /\ RepositoryStep(FALSE)

\* selectRepository: the row found is updated to selected, or a row with
\* selected: true is inserted; the insertion of a second row of one user and
\* repository is refused, and the error the answer carries is not read.
SelectRepositoryMark(c) ==
    /\ repoOps[c].kind = "select"
    /\ repoOps[c].pc = "mark"
    /\ rows' = IF repoOps[c].found
               THEN [rows EXCEPT ![repoOps[c].repo] = TRUE]
               ELSE IF repoOps[c].repo \in DOMAIN rows THEN rows
               ELSE [r \in DOMAIN rows \cup {repoOps[c].repo} |->
                       IF r = repoOps[c].repo THEN TRUE ELSE rows[r]]
    /\ repoOps' = [repoOps EXCEPT ![c] = IdleCall]
    /\ RepositoryStep(FALSE)

\* fetchRepositories up to its first await: setLoading(true), setError(null),
\* and the repositories of the user are asked of GitHub.
FetchRepositoriesCall(c) ==
    /\ c = SyncCall
    /\ repoOps[c].kind = "idle"
    /\ rows' = rows
    /\ repoOps' = [repoOps EXCEPT ![c] =
                     [IdleCall EXCEPT !.kind = "sync", !.pc = "list"]]
    /\ RepositoryStep(TRUE)

\* fetchRepositories: the list is answered, setRepositories(response.data),
\* and syncRepositoriesToSupabase asks for the rows of the user.
FetchRepositoriesListed(c) ==
    /\ repoOps[c].kind = "sync"
    /\ repoOps[c].pc = "list"
    /\ rows' = rows
    /\ repoOps' = [repoOps EXCEPT ![c].pc = "existing"]
    /\ RepositoryStep(TRUE)

\* syncRepositoriesToSupabase: select('github_id, selected') is answered;
\* existingRepoMap keeps the flags of the rows as they are now.
SyncRepositoriesExisting(c) ==
    /\ repoOps[c].kind = "sync"
    /\ repoOps[c].pc = "existing"
    /\ rows' = rows
    /\ repoOps' = [repoOps EXCEPT ![c].pc = "upsert", ![c].existing = rows]
    /\ RepositoryStep(FALSE)

\* syncRepositoriesToSupabase: every repository of GitHub is upserted with the
\* flag existingRepoMap has for it, or false; fetchRepositories returns
\* through setLoading(false).
SyncRepositoriesUpsert(c) ==
    /\ repoOps[c].kind = "sync"
    /\ repoOps[c].pc = "upsert"
    /\ rows' = [r \in DOMAIN rows \cup Repositories |->
                 IF r \in Repositories
                 THEN IF r \in DOMAIN repoOps[c].existing
                      THEN repoOps[c].existing[r] ELSE FALSE
                 ELSE rows[r]]
    /\ repoOps' = [repoOps EXCEPT ![c] = IdleCall]
    /\ RepositoryStep(TRUE)

\* loadSelectedRepository: the row .eq('selected', true).single() answers
\* with, which is an error unless exactly one row is selected.
LoadedRepository ==
    IF Cardinality({r \in DOMAIN rows : rows[r]}) = 1
    THEN CHOOSE r \in DOMAIN rows : rows[r]
    ELSE Undefined

\* The page is loaded again: the provider is constructed anew, with the state
\* of its useState calls; the calls in flight are gone with the old page, and
\* so is the selection of the repository.
\* The mount effects run in the order of their declaration: the effect on
\* [currentNote] finds no currentNote and removes the stored note, then the
\* loading effect finds nothing to load.
Reload ==
    /\ selectedRepository' = Undefined
    /\ heap' = <<>>
    /\ notes' = <<>>
    /\ folders' = <<>>
    /\ currentNote' = NoRef
    /\ session' = <<>>
    /\ syncStatus' = IF online THEN "synced" ELSE "offline"
    /\ loading' = FALSE
    /\ error' = Undefined
    /\ ops' = [s \in Slots |-> IdleOp]
    /\ UNCHANGED <<remote, online, now, calls, ext>>
    /\ fetchRuns' = 0
    /\ deleted' = <<>>
    /\ Renders(FALSE)
    /\ rows' = rows
    /\ repoOps' = [c \in RepoCalls |-> IdleCall]

\* the 'online' and 'offline' events of the window: updateOnlineStatus
UpdateOnlineStatus ==
    /\ online' = ~online
    /\ syncStatus' = IF online' THEN "synced" ELSE "offline"
    /\ UNCHANGED <<remote, now, selectedRepository, heap, notes, folders,
                   currentNote, session, loading, error, ops, calls, ext>>
    /\ fetchRuns' = 0
    /\ deleted' = <<>>
    /\ Renders(FALSE)
    /\ UNCHANGED <<rows, repoOps>>

\* Another writer changes a note file of the repository, or deletes it.
ExternalWrite(path, content) ==
    /\ ext < MaxExt
    /\ path \in DOMAIN remote
    /\ NameStartsWithNote(path.name)
    /\ remote[path] # content
    /\ remote' = PutFile(remote, path, content)
    /\ ext' = ext + 1
    /\ UNCHANGED <<online, now, selectedRepository, heap, notes, folders,
                   currentNote, session, syncStatus, loading, error, ops, calls>>
    /\ fetchRuns' = 0
    /\ deleted' = <<>>
    /\ Renders(FALSE)
    /\ UNCHANGED <<rows, repoOps>>

ExternalDelete(path) ==
    /\ ext < MaxExt
    /\ path \in DOMAIN remote
    /\ NameStartsWithNote(path.name)
    /\ remote' = DeleteFile(remote, path)
    /\ ext' = ext + 1
    /\ UNCHANGED <<online, now, selectedRepository, heap, notes, folders,
                   currentNote, session, syncStatus, loading, error, ops, calls>>
    /\ fetchRuns' = 0
    /\ deleted' = <<>>
    /\ Renders(FALSE)
    /\ UNCHANGED <<rows, repoOps>>

\* -------------------------------------------------------------------- Next

\* What happens around the application: the repository is selected, the
\* connectivity changes, other writers change the repository.
Environment ==
    \/ SelectRepository
    \/ UpdateOnlineStatus
    \/ \E p \in AllPaths : \E c \in ExtContents : ExternalWrite(p, c)
    \/ \E p \in AllPaths : ExternalDelete(p)

FetchNotes(s) ==
    \/ FetchNotesCall(s)
    \/ FetchNotesList(s)
    \/ FetchNotesRead(s)

CreateNote(s) ==
    \/ \E t \in Titles, c \in Bodies, f \in {Undefined} \cup FolderNames :
          CreateNoteCall(s, t, c, f)
    \/ CreateNotePut(s)

UpdateNote(s) ==
    \/ \E id \in CallerIds, c \in Bodies, f \in FolderArgs : UpdateNoteCall(s, id, c, f)
    \/ UpdateNoteGet(s)
    \/ UpdateNotePut(s)
    \/ UpdateNoteMoveDelete(s)
    \/ UpdateNoteMoveCreate(s)

DeleteNote(s) ==
    \/ \E id \in CallerIds : DeleteNoteCall(s, id)
    \/ DeleteNoteGet(s)
    \/ DeleteNoteDelete(s)

SyncNotes(s) ==
    \/ SyncNotesCall(s)
    \/ SyncNotesList(s)
    \/ SyncNotesRead(s)

CreateFolder(s) ==
    \/ \E n \in NewFolderNames : CreateFolderCall(s, n)
    \/ CreateFolderPut(s)

DeleteFolder(s) ==
    \/ \E id \in FolderIds : DeleteFolderCall(s, id)
    \/ DeleteFolderList(s)
    \/ DeleteFolderFile(s)

\* Every operation of the provider, in any interleaving.
\* the steps of RepositoryProvider on the table 'repositories' in call c
Persists(c) ==
    \/ SelectRepositoryClear(c)
    \/ SelectRepositoryFind(c)
    \/ SelectRepositoryMark(c)
    \/ FetchRepositoriesCall(c)
    \/ FetchRepositoriesListed(c)
    \/ SyncRepositoriesExisting(c)
    \/ SyncRepositoriesUpsert(c)

Next ==
    \/ Environment
    \/ \E s \in Slots :
         \/ FetchNotes(s)
         \/ CreateNote(s)
         \/ UpdateNote(s)
         \/ DeleteNote(s)
         \/ SyncNotes(s)
         \/ CreateFolder(s)
         \/ DeleteFolder(s)
         \/ FoldersAnswer(s)
         \/ EditorEffect(s)
    \/ Reload
    \/ ChangeRepository
    \/ \E c \in RepoCalls : Persists(c)

Spec == Init /\ [][Next]_vars

\* The sessions that fetch and create notes.
NextCreate ==
    \/ Environment
    \/ \E s \in Slots :
         \/ FetchNotes(s)
         \/ CreateNote(s)
         \/ FoldersAnswer(s)

SpecCreate == Init /\ [][NextCreate]_vars

\* The sessions that fetch, create and synchronise notes.
NextSync ==
    \/ Environment
    \/ \E s \in Slots :
         \/ FetchNotes(s)
         \/ CreateNote(s)
         \/ SyncNotes(s)
         \/ FoldersAnswer(s)

SpecSync == Init /\ [][NextSync]_vars

\* The sessions that edit, move, delete and synchronise the notes fetched.
NextEdit ==
    \/ Environment
    \/ \E s \in Slots :
         \/ FetchNotesList(s)
         \/ FetchNotesRead(s)
         \/ UpdateNote(s)
         \/ DeleteNote(s)
         \/ SyncNotes(s)
         \/ FoldersAnswer(s)

SpecEdit == Init /\ [][NextEdit]_vars

\* The sessions that create notes and create and delete folders.
NextFolders ==
    \/ Environment
    \/ \E s \in Slots :
         \/ FetchNotesList(s)
         \/ FetchNotesRead(s)
         \/ CreateNote(s)
         \/ CreateFolder(s)
         \/ DeleteFolder(s)
         \/ FoldersAnswer(s)

SpecFolders == Init /\ [][NextFolders]_vars

\* No call is in flight.
Quiet == \A r \in Slots : Free(r)

\* The sessions whose user waits for each operation to return before the next
\* one: every operation, one call at a time (the two fetches the selection of
\* a repository starts run together).
NextTurns ==
    \/ Environment
    \/ \E s \in Slots :
         \/ Quiet /\ FetchNotesCall(s)
         \/ FetchNotesList(s)
         \/ FetchNotesRead(s)
         \/ Quiet /\ \E t \in Titles, c \in Bodies, f \in {Undefined} \cup FolderNames :
                       CreateNoteCall(s, t, c, f)
         \/ CreateNotePut(s)
         \/ Quiet /\ \E id \in CallerIds, c \in Bodies, f \in FolderArgs :
                       UpdateNoteCall(s, id, c, f)
         \/ UpdateNoteGet(s)
         \/ UpdateNotePut(s)
         \/ Quiet /\ \E id \in CallerIds : DeleteNoteCall(s, id)
         \/ DeleteNoteGet(s)
         \/ DeleteNoteDelete(s)
         \/ Quiet /\ SyncNotesCall(s)
         \/ SyncNotesList(s)
         \/ SyncNotesRead(s)
         \/ Quiet /\ \E n \in NewFolderNames : CreateFolderCall(s, n)
         \/ CreateFolderPut(s)
         \/ Quiet /\ \E id \in FolderIds : DeleteFolderCall(s, id)
         \/ DeleteFolderList(s)
         \/ DeleteFolderFile(s)
         \/ FoldersAnswer(s)

SpecTurns == Init /\ [][NextTurns]_vars

\* The sessions of one call at a time in which the page may be loaded again.
NextReload ==
    \/ NextTurns
    \/ Reload

SpecReload == Init /\ [][NextReload]_vars

\* The sessions that fetch and then change the repository.
NextSwitch ==
    \/ Environment
    \/ ChangeRepository
    \/ \E s \in Slots :
         \/ FetchNotes(s)
         \/ FoldersAnswer(s)

SpecSwitch == Init /\ [][NextSwitch]_vars

\* The sessions that fetch one file of any short content: what a file of the
\* repository may hold is not bounded by what the application writes.
MaxText == 3
TitleChars == {"#", " ", "T", "\n"}
TextsUpTo(n) == UNION {[1..k -> TitleChars] : k \in 0..n}
TitleRemotes ==
    {[p \in {path} |-> c] :
        path \in {[dir |-> "", name |-> ReadmeName], [dir |-> "", name |-> NoteName(1)]},
        c \in TextsUpTo(MaxText)}

InitTitle ==
    /\ remote \in TitleRemotes
    /\ online \in BOOLEAN
    /\ now = 1
    /\ selectedRepository = Undefined
    /\ heap = <<>>
    /\ notes = <<>>
    /\ folders = <<>>
    /\ currentNote = NoRef
    /\ syncStatus = IF online THEN "synced" ELSE "offline"
    /\ loading = FALSE
    /\ error = Undefined
    /\ ops = [s \in Slots |-> IdleOp]
    /\ calls = 0
    /\ ext = 0
    /\ fetchRuns = 0
    /\ session = <<>>
    /\ deleted = <<>>
    /\ scheduled = FALSE
    /\ rows = NoRows
    /\ repoOps = [c \in RepoCalls |-> IdleCall]

NextTitle ==
    \/ SelectRepository
    \/ UpdateOnlineStatus
    \/ \E s \in Slots :
         \/ FetchNotes(s)
         \/ FoldersAnswer(s)

SpecTitle == InitTitle /\ [][NextTitle]_vars

\* The sessions in which the user selects a repository and does nothing
\* else: the fetches of the effects run, every answer arrives and every
\* effect that is due runs.
\* the steps the application takes by itself in slot s
Runs(s) ==
    \/ EditorEffect(s)
    \/ FetchNotesList(s)
    \/ FetchNotesRead(s)
    \/ FoldersAnswer(s)

NextQuiesce ==
    \/ SelectRepository
    \/ \E s \in Slots : Runs(s)

SpecQuiesce == Init /\ [][NextQuiesce]_vars /\ \A s \in Slots : WF_vars(Runs(s))

\* The sessions in which the user selects one repository and then the other
\* and lists the repositories, while the requests to the table 'repositories'
\* are answered in any order.
NextSelection ==
    \/ SelectRepository
    \/ ChangeRepository
    \/ \E c \in RepoCalls : Persists(c)

SpecSelection == Init /\ [][NextSelection]_vars

\* ------------------------------------------------------------- properties

NoteValues == [i \in NoteIdx |-> NoteAt(i)]
NewNoteAt(j) == heap'[notes'[j]]
NewNoteIdx == 1..Len(notes')

\* The call of slot s returns in this step.
Resolves(s) == ops[s].kind # "idle" /\ ops'[s].kind = "idle"

\* Every request of this step was answered.
NoFault == online /\ ext' = ext

\* C1: a note with synced = false is neither removed from notes nor given
\* another content by the step in which fetchNotes or syncNotes sets the notes.
C1_UnsyncedNotesKept ==
    [][\A s \in Slots : (FetchNotesRead(s) \/ SyncNotesRead(s)) =>
          \A i \in NoteIdx : ~NoteAt(i).synced =>
             \E j \in NewNoteIdx :
                /\ NewNoteAt(j).id = NoteAt(i).id
                /\ NewNoteAt(j).path = NoteAt(i).path
                /\ NewNoteAt(j).content = NoteAt(i).content]_vars

\* The note was fetched under the hash that is its id, and holds an edit that
\* was not written to its file: its content is neither the one fetched or
\* written last nor one that is written as it.
EditedLocally(n) ==
    /\ n.base # NoBase
    /\ n.id = Hash(n.base)
    /\ n.content # n.base
    /\ FullContent(n.title, n.content) # n.base

\* The file of the note holds what another writer put there since: not what
\* the note was fetched from, and not what the note holds now.
ChangedRemotely(n) ==
    /\ n.path \in DOMAIN remote
    /\ remote[n.path] \in ExtContents
    /\ remote[n.path] # n.base
    /\ Hash(remote[n.path]) # n.id
    /\ remote[n.path] # n.content

Listed(s, path) == \E m \in 1..Len(ops[s].listing) : ops[s].listing[m].path = path

\* C2: when syncNotes resolves, every request answered, for a note that was
\* fetched, then edited locally, and whose file another writer changed in the
\* meantime, syncStatus is 'conflicted' and the note still has the local content.
C2_ConflictDetected ==
    [][\A s \in Slots : (SyncNotesRead(s) /\ NoFault) =>
          \A k \in 1..Len(ops[s].snap) :
             LET n == heap[ops[s].snap[k]]
             IN (EditedLocally(n) /\ ChangedRemotely(n) /\ Listed(s, n.path)) =>
                  /\ syncStatus' = "conflicted"
                  /\ \E j \in NewNoteIdx :
                        /\ NewNoteAt(j).path = n.path
                        /\ NewNoteAt(j).content = n.content]_vars

\* C3: a step of updateNote or deleteNote that changes or deletes a file of
\* the repository does so only if the hash of the file is the id recorded in
\* the note.
C3_CompareAndSwap ==
    [][\A s \in Slots :
          ((UpdateNotePut(s) \/ UpdateNoteMoveDelete(s) \/ DeleteNoteDelete(s))
             /\ remote' # remote) =>
          LET n == heap[ops[s].note]
          IN n.path \in DOMAIN remote /\ Hash(remote[n.path]) = n.id]_vars

\* C4: createNote called offline on a selected repository returns at once (no
\* request is left in flight, the repository is not written) and notes holds
\* the new note, with synced = false.
C4_OfflineCreate ==
    [][\A s \in Slots, t \in Titles, c \in Bodies, f \in FolderArgs :
          (CreateNoteCall(s, t, c, f) /\ selectedRepository # Undefined /\ ~online) =>
             /\ Len(notes') = Len(notes) + 1
             /\ LET n == NewNoteAt(Len(notes'))
                IN n.title = t /\ n.content = c /\ n.synced = FALSE
             /\ remote' = remote
             /\ \A r \in Slots : ops'[r].kind = ops[r].kind
             /\ ops'[s].kind = "idle"]_vars

\* C4, its case: the session is offline, createNote has reported that it cannot
\* synchronise, and the note it made is in notes, not synced.
C4_Witness ==
    /\ ~online
    /\ error = CannotSyncOffline
    /\ \E i \in NoteIdx :
          NoteAt(i).synced = FALSE /\ NoteAt(i).id[1] = "temp-" /\ currentNote = notes[i]

\* The files of the repository are one note file, holding what createNote
\* writes for the title t and the body c.
OnlyFileCreatedWith(t, c) ==
    \E p \in DOMAIN remote :
       /\ DOMAIN remote = {p}
       /\ NameStartsWithNote(p.name)
       /\ remote[p] = FullContent(t, c)

\* C5: after a createNote(t, c) that succeeded on an empty repository, a run
\* of fetchNotes that starts from no local notes, with every request answered,
\* leaves exactly one note, of title t and content c.
C5_RoundTrip ==
    [][\A s \in Slots : (FetchNotesRead(s) /\ Answered(s) /\ NoFault /\ notes = <<>>) =>
          \A t \in Titles, c \in Bodies :
             OnlyFileCreatedWith(t, c) =>
                /\ Len(notes') = 1
                /\ NewNoteAt(1).title = t
                /\ NewNoteAt(1).content = c]_vars

NoDuplicates(ns) ==
    \A i, j \in 1..Len(ns) : ns[i].path = ns[j].path => i = j

\* C6: the second of two runs of fetchNotes in a row, the repository and the
\* local state untouched in between, leaves the notes (paths, ids, titles,
\* contents, synced flags, order) and the folders as the first run left them,
\* with no path twice, and does not make syncStatus 'conflicted'.
C6_FetchIdempotent ==
    [][fetchRuns' = 2 =>
          /\ NoteValues' = NoteValues
          /\ folders' = folders
          /\ NoDuplicates(NoteValues')
          /\ syncStatus' # "conflicted"]_vars

\* C6, its case: two runs in a row are done, and there are notes.
C6_Witness == fetchRuns = 2 /\ Len(notes) > 0 /\ \A s \in Slots : Free(s)

\* C7: the folder of a note and the directory of its path agree.
C7_PathFolderConsistent ==
    \A i \in NoteIdx :
       LET n == NoteAt(i)
       IN /\ n.folder \notin {Undefined, ""} => n.path.dir = n.folder
          /\ n.path.dir # "" => n.folder = n.path.dir

\* The directory a folder argument stands for.
DirOf(folderName) == IF folderName = Undefined THEN "" ELSE folderName

\* C8: when an updateNote called with a folder other than the one the note
\* had succeeds, the file at the old path is gone, the note has a new path in
\* the directory of the new folder, and the repository holds a file there.
C8_Move ==
    [][\A s \in Slots :
          (/\ UpdateNotePut(s) \/ UpdateNoteMoveCreate(s)
           /\ syncStatus' = "synced"
           /\ ops[s].folderName # Undefined
           /\ DirOf(ops[s].oldFolder) # DirOf(ops[s].folderName)) =>
          LET old == heap[ops[s].note].path
          IN /\ old \notin DOMAIN remote'
             /\ \E j \in NewNoteIdx :
                   /\ NewNoteAt(j).id \in {ops[s].id, Hash(remote'[NewNoteAt(j).path])}
                   /\ NewNoteAt(j).path # old
                   /\ NewNoteAt(j).path.dir = DirOf(ops[s].folderName)
                   /\ NewNoteAt(j).path \in DOMAIN remote']_vars

\* C9: when deleteFolder returns, whatever became of its requests, notes holds
\* no note of the folder.
C9_FolderNotesGone ==
    [][\A s \in Slots : (ops[s].kind = "deleteFolder" /\ Resolves(s)) =>
          \A j \in NewNoteIdx : NewNoteAt(j).folder # ops[s].folder]_vars

IsTimestamp(tok) == tok \in {ToString(k) : k \in 1..MaxClock}

\* The path is note_<digits>.md, in the directory of the folder given.
IsNotePathIn(path, folderName) ==
    /\ path.dir = DirOf(folderName)
    /\ Len(path.name) = 3
    /\ path.name[1] = "note_"
    /\ IsTimestamp(path.name[2])
    /\ path.name[3] = ".md"

\* C10: createNote called online on a selected repository with notes = []
\* leaves exactly one note, of a path note_<digits>.md in the folder given,
\* and so does its end when that note is still the only one; when the file is
\* created, the note is synced and its id is the hash of the file.
C10_CreateOnline ==
    [][\A s \in Slots :
          /\ \A t \in Titles, c \in Bodies, f \in FolderArgs :
                (CreateNoteCall(s, t, c, f) /\ selectedRepository # Undefined
                    /\ online /\ notes = <<>>) =>
                   /\ Len(notes') = 1
                   /\ IsNotePathIn(NewNoteAt(1).path, f)
          /\ (CreateNotePut(s) /\ Len(notes) = 1 /\ NoteAt(1).id = ops[s].id
                 /\ NoteAt(1).folder = ops[s].folderName) =>
                /\ Len(notes') = 1
                /\ IsNotePathIn(NewNoteAt(1).path, ops[s].folderName)
                /\ remote' # remote =>
                      /\ NewNoteAt(1).synced
                      /\ NewNoteAt(1).path \in DOMAIN remote'
                      /\ NewNoteAt(1).id = Hash(remote'[NewNoteAt(1).path])]_vars

\* C10, its case: the one note is the one createNote made, its file is in the
\* repository and it is synced under the hash of the file.
C10_Witness ==
    /\ Len(notes) = 1
    /\ \A s \in Slots : Free(s)
    /\ NoteAt(1).content \in Bodies
    /\ NoteAt(1).synced
    /\ IsNotePathIn(NoteAt(1).path, NoteAt(1).folder)
    /\ NoteAt(1).path \in DOMAIN remote
    /\ remote[NoteAt(1).path] = FullContent(NoteAt(1).title, NoteAt(1).content)
    /\ NoteAt(1).id = Hash(remote[NoteAt(1).path])
    /\ syncStatus = "synced"


\* The call of slot s takes a step.
Steps(s) ==
    /\ ops[s].kind # "idle"
    /\ (ops'[s].pc # ops[s].pc \/ ops'[s].listing # ops[s].listing)

\* The request the call of slot s waits for is one the repository refuses: the
\* file is not there (not found), is there already, or has another hash
\* (conflict).
Refused(s) ==
    LET op == ops[s]
        k == <<op.kind, op.pc>>
    IN \/ k \in {<<"createNote", "put">>, <<"createFolder", "put">>,
                 <<"updateNote", "moveCreate">>}
          /\ ~PutAccepted(remote, op.path, Undefined)
       \/ k \in {<<"updateNote", "get">>, <<"deleteNote", "get">>}
          /\ heap[op.note].path \notin DOMAIN remote
       \/ k = <<"updateNote", "put">>
          /\ ~PutAccepted(remote, heap[op.note].path, op.sha)
       \/ k \in {<<"updateNote", "moveDelete">>, <<"deleteNote", "delete">>}
          /\ ~DeleteAccepted(remote, heap[op.note].path, op.sha)
       \/ k = <<"deleteFolder", "list">>
          /\ op.path.dir \notin RootDirs(remote)
       \/ k = <<"deleteFolder", "files">>
          /\ Head(op.listing).path \notin DOMAIN remote

\* The request the call of slot s waits for fails in this step: no network,
\* an error answer, or a refusal.
RequestFails(s) == Steps(s) /\ (~online \/ ext' # ext \/ Refused(s))

\* What the catch block of the operation shows of a failed request.
FailureShown(s) ==
    LET op == ops[s]
    IN IF op.pc = "folders" THEN error' = "Failed to fetch folders from GitHub"
       ELSE IF op.kind = "createNote"
            THEN error' = "Failed to create note" /\ syncStatus' = "offline"
       ELSE IF op.kind = "updateNote"
            THEN error' = "Failed to update note" /\ syncStatus' = "offline"
       ELSE IF op.kind = "deleteNote"
            THEN error' = "Failed to delete note" /\ syncStatus' = "offline"
       ELSE IF op.kind = "createFolder" THEN error' = "Failed to create folder in GitHub"
       ELSE IF op.kind = "deleteFolder" THEN error' = "Failed to delete folder in GitHub"
       ELSE IF op.kind = "syncNotes" /\ op.pc = "list" THEN error' = "Failed to sync notes"
       ELSE TRUE

\* The reads of fetchNotes and syncNotes catch their own failures and go on.
GoesOn(s) == ops[s].kind = "fetchNotes" \/ (ops[s].kind = "syncNotes" /\ ops[s].pc = "read")

SyncStatusValues == {"synced", "pending", "conflicted", "offline"}

\* C12: in every reachable state, a call in flight or not, syncStatus is one of
\* 'synced', 'pending', 'conflicted', 'offline'.
C12_SyncStatusTyped == syncStatus \in SyncStatusValues

\* C13: in every reachable state with no operation in flight, syncStatus =
\* 'synced' implies that the device is online and that no note of notes has
\* synced = false; an 'online' event does not set 'synced' while unsynced
\* notes exist.
C13_SyncedMeansClean ==
    (Quiet /\ syncStatus = "synced") =>
        /\ online
        /\ \A i \in NoteIdx : NoteAt(i).synced

\* No note of the new notes has the id.
AbsentAfter(id) == \A j \in NewNoteIdx : NewNoteAt(j).id # id

\* C14: when deleteNote(id) for a note of notes returns, the note is no longer
\* in notes, whether the device was offline (the call returns at once), the
\* remote delete failed, or it succeeded.
C14_DeletedLocally ==
    [][\A s \in Slots :
         /\ \A id \in CallerIds :
              (/\ selectedRepository # Undefined
               /\ FindById(heap, notes, id) # NoRef
               /\ DeleteNoteCall(s, id)
               /\ ops'[s].kind = "idle") => AbsentAfter(id)
         /\ (ops[s].kind = "deleteNote" /\ Resolves(s)) => AbsentAfter(ops[s].id)]_vars

\* The new notes hold a note of this id with this content, marked unsynced.
UnsyncedAfter(id, content) ==
    \E j \in NewNoteIdx :
       /\ NewNoteAt(j).id = id
       /\ NewNoteAt(j).content = content
       /\ ~NewNoteAt(j).synced

\* C15: updateNote(id, content) for a note of notes shows the new content in
\* notes with synced = false before its first request is answered; when the
\* device is offline (the call returns at once) or the remote write fails, the
\* note keeps the new content and synced = false.
C15_EditUnsynced ==
    [][\A s \in Slots :
         /\ \A id \in CallerIds, c \in Bodies, f \in FolderArgs :
              (/\ selectedRepository # Undefined
               /\ FindById(heap, notes, id) # NoRef
               /\ UpdateNoteCall(s, id, c, f)) => UnsyncedAfter(id, c)
         /\ (/\ ops[s].kind = "updateNote"
             /\ Resolves(s)
             /\ error' = "Failed to update note") =>
                UnsyncedAfter(ops[s].id, ops[s].content)]_vars

\* C16: when a run of syncNotes resolves online with every request answered,
\* each note that had synced = false and whose file the repository would
\* accept has been written: its file is in the repository with the content of
\* the note, and the note has synced = true and the hash of the file as id.
C16_UnsyncedPushed ==
    [][\A s \in Slots : (SyncNotesRead(s) /\ NoFault) =>
          \A i \in NoteIdx :
             (~NoteAt(i).synced /\ PutAccepted(remote, NoteAt(i).path, Undefined)) =>
                /\ NoteAt(i).path \in DOMAIN remote'
                /\ \E j \in NewNoteIdx :
                      /\ NewNoteAt(j).path = NoteAt(i).path
                      /\ NewNoteAt(j).synced
                      /\ NewNoteAt(j).id = Hash(remote'[NoteAt(i).path])]_vars

\* C17: in every reachable state no two notes of notes have the same path.
C17_PathsUnique ==
    \A i, j \in NoteIdx : NoteAt(i).path = NoteAt(j).path => i = j

C19_NoMarkerNotes ==
    [][\A s \in Slots : (FetchNotesRead(s) \/ SyncNotesRead(s)) =>
          \A j \in NewNoteIdx : NewNoteAt(j).path.name \notin {GitkeepName, ReadmeName}]_vars

\* C20: a reload restores the notes and the folders that were in memory before
\* it: the provider constructed by the reload holds the same set of notes and
\* the same set of folders as the one before, whatever createNote, updateNote,
\* deleteNote, createFolder and deleteFolder did, online or offline.
C20_ReloadRestores ==
    [][Reload =>
          /\ {NewNoteAt(j) : j \in NewNoteIdx} = {NoteAt(i) : i \in NoteIdx}
          /\ {folders'[j] : j \in 1..Len(folders')} = {folders[i] : i \in 1..Len(folders)}]_vars

\* C21: loading the stored data at startup tolerates what is missing and
\* still loads the rest: the keys of the notes and of the folders are absent
\* (nothing writes them), so notes and folders start empty; the current note
\* starts empty when its key is absent, and is loaded when its key holds a
\* note.
C21_LoadTolerant ==
    [][Reload =>
          /\ notes' = <<>>
          /\ folders' = <<>>
          /\ session = <<>> => currentNote' = NoRef
          /\ session # <<>> =>
                /\ currentNote' # NoRef
                /\ heap'[currentNote'] = session[1]]_vars

\* The note was fetched from the first repository: it holds what a file there
\* held.
FetchedFromFirst(n) ==
    /\ n.synced
    /\ n.base # NoBase
    /\ \A p \in DOMAIN OtherRepository : n.base # OtherRepository[p]

\* C22: the change of the selected repository clears notes and folders and
\* starts a fetch against the new repository, and from then on no note
\* fetched from the repository before is in notes, not even the result of a
\* fetchNotes against it that was in flight at the change.
C22_SwitchInvalidates ==
    [][/\ ChangeRepository =>
            /\ notes' = <<>>
            /\ folders' = <<>>
            /\ \E s \in Slots : ops'[s].kind = "fetchNotes" /\ ops'[s].repo = "B"
       /\ selectedRepository' = "B" =>
            \A j \in NewNoteIdx : ~FetchedFromFirst(NewNoteAt(j))]_vars

\* A public operation is called in slot s.
Called(s) ==
    \/ FetchNotesCall(s)
    \/ \E t \in Titles, c \in Bodies, f \in {Undefined} \cup FolderNames :
          CreateNoteCall(s, t, c, f)
    \/ \E id \in CallerIds, c \in Bodies, f \in FolderArgs : UpdateNoteCall(s, id, c, f)
    \/ \E id \in CallerIds : DeleteNoteCall(s, id)
    \/ SyncNotesCall(s)
    \/ \E n \in NewFolderNames : CreateFolderCall(s, n)
    \/ \E id \in FolderIds : DeleteFolderCall(s, id)

\* C23: a public operation called with no repository selected is a no-op: no
\* request is started (no call is left in flight, the repository is
\* untouched) and notes, folders, currentNote, syncStatus, loading and error
\* are as before.
C23_NoRepositoryNoOp ==
    [][\A s \in Slots : (selectedRepository = Undefined /\ Called(s)) =>
          /\ \A r \in Slots : ops'[r].kind = "idle"
          /\ UNCHANGED <<remote, heap, notes, folders, currentNote, syncStatus,
                         loading, error>>]_vars

\* After a reload no repository is selected yet, and operations can be called.
C23_Witness ==
    /\ selectedRepository = Undefined
    /\ calls > 0
    /\ Quiet
    /\ ENABLED (\E s \in Slots : Called(s))

\* C24: deleteNote is idempotent: a second deleteNote(id) right after the one
\* that removed the note, with nothing in between, leaves the notes, the
\* folders and syncStatus as the first call left them.
C24_DeleteTwice ==
    [][\A s \in Slots : \A id \in CallerIds :
          (deleted = <<id>> /\ DeleteNoteCall(s, id)) =>
             /\ {NewNoteAt(j) : j \in NewNoteIdx} = {NoteAt(i) : i \in NoteIdx}
             /\ folders' = folders
             /\ syncStatus' = syncStatus]_vars

\* C25: when a run of fetchNotes resolves with every request answered, a note
\* of notes that has no file at its path in the repository is gone from notes
\* if it had synced = true, and is still in notes if it had synced = false.
C25_AbsentRemotely ==
    [][\A s \in Slots : (FetchNotesRead(s) /\ NoFault /\ Answered(s)) =>
          \A i \in NoteIdx :
             NoteAt(i).path \notin DOMAIN Store(s) =>
                IF NoteAt(i).synced
                THEN \A j \in NewNoteIdx : NewNoteAt(j).path # NoteAt(i).path
                ELSE \E j \in NewNoteIdx : NewNoteAt(j) = NoteAt(i)]_vars

\* The note files the repository of the call of slot s holds.
RemoteNotePaths(s) == {p \in DOMAIN Store(s) : IsNoteFile(p.name)}

\* C26: when a run of fetchNotes or of syncNotes resolves with every request
\* answered, every note file of the repository whose path is that of a local
\* note with synced = true has replaced that note (the note at the path has
\* the hash of the file as id and its content), and every note file with no
\* local note at its path has been added, exactly once, with synced = true.
C26_MergeByPath ==
    [][\A s \in Slots :
          ((FetchNotesRead(s) /\ Answered(s)) \/ SyncNotesRead(s)) /\ NoFault =>
          \A p \in RemoteNotePaths(s) :
             LET local == {i \in NoteIdx : NoteAt(i).path = p}
                 new == {j \in NewNoteIdx : NewNoteAt(j).path = p}
                 FromRemote(j) == /\ NewNoteAt(j).id = Hash(Store(s)[p])
                                  /\ NewNoteAt(j).content = Store(s)[p]
                                  /\ NewNoteAt(j).synced
             IN /\ (\E i \in local : NoteAt(i).synced) => \E j \in new : FromRemote(j)
                /\ local = {} => Cardinality(new) = 1 /\ \A j \in new : FromRemote(j)]_vars

\* The write of the updateNote of slot s is refused for its hash: the file is
\* there with another hash than the one the call read.
HashMismatch(s) ==
    LET path == heap[ops[s].note].path
    IN /\ path \in DOMAIN remote
       /\ ops[s].sha # Hash(remote[path])

\* C27: when the write of an updateNote is answered with a hash conflict, the
\* call returns with syncStatus 'conflicted', the content of the note as it
\* was, and no further request (the write is not tried again).
C27_ConflictRouted ==
    [][\A s \in Slots : (UpdateNotePut(s) /\ NoFault /\ HashMismatch(s)) =>
          /\ syncStatus' = "conflicted"
          /\ ops'[s].kind = "idle"
          /\ remote' = remote
          /\ \E j \in NewNoteIdx :
                /\ NewNoteAt(j).id = ops[s].id
                /\ NewNoteAt(j).content = heap[ops[s].note].content]_vars

\* A mutating operation is called in slot s.
MutationCalled(s) ==
    \/ \E t \in Titles, c \in Bodies, f \in {Undefined} \cup FolderNames :
          CreateNoteCall(s, t, c, f)
    \/ \E id \in CallerIds, c \in Bodies, f \in FolderArgs : UpdateNoteCall(s, id, c, f)
    \/ \E id \in CallerIds : DeleteNoteCall(s, id)
    \/ SyncNotesCall(s)
    \/ \E n \in NewFolderNames : CreateFolderCall(s, n)
    \/ \E id \in FolderIds : DeleteFolderCall(s, id)

\* C28: a mutating operation called while the device is offline issues no
\* request: it returns without a call left in flight.
C28_OfflineNoRequest ==
    [][\A s \in Slots :
          (~online /\ selectedRepository # Undefined /\ MutationCalled(s)) =>
             \A r \in Slots : ops'[r].kind = "idle"]_vars

\* C29: when a request of deleteNote(id) is answered 'not found' (the note
\* was never written, or another writer deleted its file), the call does not
\* return with the note still in notes.
C29_NotFoundDeletes ==
    [][\A s \in Slots :
          (/\ ops[s].kind = "deleteNote"
           /\ Resolves(s)
           /\ NoFault
           /\ heap[ops[s].note].path \notin DOMAIN remote) =>
             AbsentAfter(ops[s].id)]_vars

\* A listing of the run of fetchNotes in slot s was not answered, or one of
\* the reads of this step is not.
FetchFailed(s) ==
    \/ ~ops[s].clean
    \/ Len(ops[s].listing) > 0 /\ (~online \/ ext' # ext)

\* C30: when a fetchNotes whose listing or reads failed returns, notes holds
\* the notes it held before and syncStatus is not 'synced'.
C30_FailedFetchKeeps ==
    [][\A s \in Slots :
          (/\ ops[s].kind = "fetchNotes"
           /\ ops[s].pc = "read"
           /\ Resolves(s)
           /\ FetchFailed(s)) =>
             /\ Len(notes') = Len(notes)
             /\ \A i \in NoteIdx : NewNoteAt(i) = NoteAt(i)
             /\ syncStatus' # "synced"]_vars

\* a space or a tab: the whitespace a line may hold
IsBlank(ch) == ch \in {" ", "\t"}

\* The line starts with the heading marker: a '#' and whitespace after it.
StartsWithHeading(line) == Len(line) >= 2 /\ line[1] = "#" /\ IsBlank(line[2])

\* text is what follows the heading marker of the line.
HeadingText(line, text) ==
    \E k \in 1..(Len(line) - 1) :
       /\ line[1] = "#"
       /\ \A i \in 2..(k + 1) : IsBlank(line[i])
       /\ text = SubSeq(line, k + 2, Len(line))
       /\ text = <<>> \/ ~IsBlank(text[1])

\* C31 as stated: the title of a fetched note is the first line of its file
\* without the heading marker when the file starts with a heading, and comes
\* from the file name when it does not.
C31_TitleDerived ==
    \A i \in NoteIdx :
       LET n == NoteAt(i)
           line == FirstLine(n.content)
       IN IF StartsWithHeading(line)
          THEN HeadingText(line, n.title)
          ELSE n.title = NameStem(n.path.name)

\* C31 amended: the title of a fetched note is the first line of its file
\* without the heading marker; when that text is empty (an empty first line,
\* or a heading marker with nothing after it) the title comes from the file
\* name, without its .md and its note_.
C31_TitleOrName ==
    \A i \in NoteIdx :
       LET n == NoteAt(i)
           line == FirstLine(n.content)
       IN /\ (StartsWithHeading(line) /\ ~HeadingText(line, <<>>)) =>
                HeadingText(line, n.title)
          /\ (~StartsWithHeading(line) /\ line # <<>>) => n.title = line
          /\ (line = <<>> \/ HeadingText(line, <<>>)) =>
                n.title = NameStem(n.path.name)

\* A file with no heading and a first line was fetched.
C31_Witness ==
    \E i \in NoteIdx :
       LET line == FirstLine(NoteAt(i).content)
       IN line # <<>> /\ ~StartsWithHeading(line) /\ NoteAt(i).title = line

\* text starts with the characters of prefix
StartsWith(text, prefix) ==
    Len(text) >= Len(prefix) /\ SubSeq(text, 1, Len(prefix)) = prefix

\* C32: the content of a note of notes never starts with the '# title' line
\* that serialization puts before it, and no note file of the repository
\* starts with that line twice.
C32_HeadingOnlyInFile ==
    /\ \A i \in NoteIdx :
          ~StartsWith(NoteAt(i).content, FullContent(NoteAt(i).title, <<>>))
    /\ \A p \in DOMAIN remote :
          NameStartsWithNote(p.name) =>
             LET line == FullContent(TitleOf(remote[p], p.name), <<>>)
             IN ~StartsWith(remote[p], line \o line)

\* The files the step writes: those created, and those given another content.
Written == {p \in DOMAIN remote' : p \notin DOMAIN remote \/ remote'[p] # remote[p]}

\* C33: when createNote, updateNote or syncNotes returns after a write of a
\* file, the note of that file in notes has the hash of what was written as
\* its id.
C33_IdIsRemoteHash ==
    [][\A s \in Slots :
          (/\ ops[s].kind \in {"createNote", "updateNote", "syncNotes"}
           /\ Resolves(s)) =>
             \A p \in Written :
                /\ \E j \in NewNoteIdx : NewNoteAt(j).path = p
                /\ \A j \in NewNoteIdx :
                      NewNoteAt(j).path = p => NewNoteAt(j).id = Hash(remote'[p])]_vars

\* C34: loading is false when no operation is in flight, and true while an
\* operation is in flight (every operation sets it when it starts).
C34_LoadingInFlight == loading <=> ~Quiet

\* C35: with no operation in flight, the currentNote is one of the notes: a
\* note of notes has its id, its content and its path.
C35_CurrentNoteInNotes ==
    (Quiet /\ currentNote # NoRef) =>
       \E i \in NoteIdx :
          /\ NoteAt(i).id = heap[currentNote].id
          /\ NoteAt(i).content = heap[currentNote].content
          /\ NoteAt(i).path = heap[currentNote].path

\* notes is what a fetchNotes that was answered in full leaves: the note files
\* of the repository, each with the hash of its file as id.
AsFetched ==
    /\ Len(notes) = Len(NoteFilesOf(remote, FullReach))
    /\ \A i \in NoteIdx :
          /\ NoteAt(i).synced
          /\ NoteAt(i).path \in DOMAIN remote
          /\ NoteAt(i).id = Hash(remote[NoteAt(i).path])

\* C36: when the write of a createNote succeeds after a fetchNotes that ran in
\* between has set the notes, and nothing is in flight any more, notes holds
\* exactly one note of the file created, with synced = true.
C36_CreateSurvivesFetch ==
    [][\A s \in Slots :
          (/\ ops[s].kind = "createNote"
           /\ ops[s].pc = "put"
           /\ Resolves(s)
           /\ ops[s].path \in Written
           /\ FindById(heap, notes, ops[s].id) = NoRef
           /\ AsFetched
           /\ \A r \in Slots : ops'[r].kind = "idle") =>
             /\ Cardinality({j \in NewNoteIdx : NewNoteAt(j).path = ops[s].path}) = 1
             /\ \A j \in NewNoteIdx :
                   NewNoteAt(j).path = ops[s].path => NewNoteAt(j).synced]_vars

\* C37: updateNote(id, content) with the id a note of notes had before a
\* createNote or an updateNote replaced it is not refused as 'note not
\* found': the note gets the content.
C37_EditOfReplacedId ==
    [][\A s \in Slots : \A id \in CallerIds, c \in Bodies, f \in FolderArgs :
          \A i \in NoteIdx :
             (/\ selectedRepository # Undefined
              /\ NoteAt(i).was = <<id>>
              /\ FindById(heap, notes, id) = NoRef
              /\ UpdateNoteCall(s, id, c, f)) =>
                /\ error' # "Failed to update note"
                /\ Len(notes') = Len(notes)
                /\ NewNoteAt(i).content = c]_vars

\* C38: once a repository is selected and the user does nothing more, the
\* fetching comes to an end: from some state on no fetchNotes is in flight and
\* none is due.
C38_FetchingQuiesces ==
    <>[](~scheduled /\ \A s \in Slots : ops[s].kind # "fetchNotes")

\* C39: after any interleaving of selectRepository calls and fetchRepositories
\* of one user, at most one stored row has selected = true, and once every
\* call has completed that row is the one of the repository passed to the
\* last selectRepository call.
C39_SelectionSingle ==
    /\ Cardinality({r \in DOMAIN rows : rows[r]}) <= 1
    /\ (/\ selectedRepository # Undefined
        /\ \A c \in RepoCalls : repoOps[c].kind = "idle") =>
          LoadedRepository = selectedRepository

====
